---- MODULE Spec2Model ----
(***************************************************************************)
(* Single-threaded cooperative executor of libft-rs: the task arena        *)
(* (runtime/tasks.rs), the reactor (runtime/task_waker.rs), the waker      *)
(* bridge (runtime/waker.rs) and the driver (runtime/single_thread.rs).    *)
(*                                                                         *)
(* A TaskId i names tasks[i + 1] (TLA+ sequences start at 1).              *)
(* Time is counted in ticks; TicksPerMs ticks make one millisecond, the    *)
(* unit libc::poll takes its timeout in.                                   *)
(***************************************************************************)
EXTENDS Integers, Sequences, FiniteSets, TLC

\* ------------------------------------------------------------- bounds
\* Largest number of slots the backing store may grow to.
MaxSlots == 2
\* Largest number of tasks a scenario spawns.
MaxSpawns == 2
\* Largest number of pending I/O interests.
MaxIo == 2
\* Largest number of pending timers.
MaxSleepers == 1
\* Largest number of timers registered before a run_until_idle call.
MaxTimers == 2
\* Number of threads that share the mutex.
MaxThreads == 3
\* Largest value of the monotonic clock, in ticks.
MaxTime == 2
\* History counters saturate here.
MaxCount == 2
\* Ticks per millisecond (the resolution lost by Duration::as_millis).
TicksPerMs == 2
\* Scenario B: how far in the future task B sets its timer, in ticks.
TimerDelay == 2
\* c_int::MAX: the largest timeout libc::poll accepts, in milliseconds. The
\* c_int of the model is narrow, so that a deadline can lie further ahead.
C_INT_MAX == 3
\* The bytes are 1 .. MaxByte.
MaxByte == 2
\* The longest stream a descriptor delivers.
MaxStream == 3
\* The longest delimiter given to read_until.
MaxDelim == 2
\* How much larger than asked a block of malloc can be (malloc_usable_size).
MaxSlack == 1
\* The width of usize in bits (that of a 16-bit target).
UsizeBits == 16

\* ------------------------------------------------------------- constants
\* usize::MAX, the "no more nodes" sentinel of both lists. Also stands for
\* the `next` field of the variants that have none (Waiting, Running).
USIZE_MAX == -1
\* The first batch_size of read_until and of ReadUntil::new.
BATCH_SIZE == 64

TaskIds == 0 .. (MaxSlots - 1)
Threads == 1 .. MaxThreads
\* The descriptor the futures of the scenarios use.
ScenarioFds == {1}
\* The file descriptors of the environment.
Fds == {1, 2}
Instants == 0 .. MaxTime
\* A deadline more than c_int::MAX milliseconds after every instant.
FarInstant == MaxTime + (C_INT_MAX + 1) * TicksPerMs
Deadlines == Instants \cup {FarInstant}

\* What a task does when resumed (the future behind DynTask):
\*   "any"   an arbitrary future: any runtime calls, then Pending or Ready
\*   "done"  reports Ready on its first resume                (tasks A, C)
\*   "timer" first resume: registers a timer TimerDelay ahead, Pending;
\*           second resume: Ready                                (task B)
\*   "io"    first resume: registers I/O interest, Pending;
\*           second resume: Ready                                (task D)
\*   "read"  Fd::poll_read: Ready if the descriptor is readable, otherwise
\*           registers I/O interest and reports Pending
ScenarioKinds == {"done", "timer", "io", "read"}

NoTask == [kind |-> "none", step |-> 0, fd |-> 0]

VARIABLES
    tasks,            \* Tasks::tasks: the slots
    free_list_head,   \* Tasks::free_list_head
    ready_list_head,  \* Tasks::ready_list_head
    len,              \* Tasks::len
    io,               \* TaskWaker::io: the PollFd of each interest
    io_wakers,        \* TaskWaker::io_wakers: the TaskId each Waker carries
    sleepers,         \* TaskWaker::sleepers: sequence of [instant, waker]
    now,              \* Clock::MONOTONIC
    fdReady,          \* the descriptors the OS reports an event for
    pc,               \* where the driver is: "idle", "loop", "poll", "aborted"
    cur,              \* the task run_until_idle holds by value while it polls it
    hist,             \* history: live (inserts minus completions), maxLive,
                      \* wokenSince, readyOrder (the tasks that are Ready, the
                      \* last to become Ready first), freeOrder (the slots that
                      \* are Vacant, the last to be freed first), wokenRunning
                      \* (the tasks whose handle was invoked during their own
                      \* resume, until they are resumed again); and of a
                      \* traced run: spawned (the futures
                      \* spawned), runs (run_until_idle calls since the first
                      \* spawn), waits and polls (wait_any calls and resumes of
                      \* the current or last run_until_idle call)
    last,             \* history: the last operation and what it returned
    borrowed,         \* UnsafeRefCell::borrowed of TASKS and of WAKER in a build
                      \* with debug assertions, and whether the assert of
                      \* update has failed
    mutex_lock,       \* Mutex::lock, a FutexLock: the State in its AtomicState
    threads,          \* each thread using the mutex: where it is (at), and the
                      \* `state` local of FutexLock::try_lock
    once_cell,        \* a shared OnceCell: initialized, and value (0: uninit)
    callers,          \* each thread using the cell: where it is (at), the
                      \* value it brought, and what its last call returned
    once_hist,        \* history: oks (set calls that returned Ok), overwritten
                      \* (the value was written with the cell initialized)
    stream,           \* the bytes a descriptor delivers, in order
    fd_pos,           \* how many of them have been read into readbuf
    readbuf,          \* a ReadBuffer: data (the initialized bytes), capacity,
                      \* head, tail
    rd,               \* a read_until or read_exact call on readbuf, made
                      \* twice from the same state: `sync` by the blocking
                      \* method, `async` by the future, each with its buffer
                      \* (buf), its position in the stream (pos), the
                      \* future's or loop's locals, and the slice returned
                      \* (ret); of the blocking call only what it returned
                      \* is kept once the future is polled
    sock,             \* a SocketAddr::V6 (ip, port) and what Display wrote
                      \* for it (text, once shown)
    tty               \* a read_non_canonical call: where it is (at), its
                      \* locals state and utf8_buf, the terminal's mode
                      \* (canonical), what it returned (ret), and history
                      \* of its last turn: called (the callback was
                      \* invoked), event, flow (what the callback returned)

runtimeVars == <<tasks, free_list_head, ready_list_head, len, io, io_wakers, sleepers,
                 now, fdReady, pc, cur, hist, last, borrowed>>

mutexVars == <<mutex_lock, threads>>

onceVars == <<once_cell, callers, once_hist>>

readVars == <<stream, fd_pos, readbuf, rd>>

\* What the runtime does not touch.
libVars == <<mutexVars, onceVars, readVars, tty, sock>>

vars == <<tasks, free_list_head, ready_list_head, len, io, io_wakers, sleepers,
          now, fdReady, pc, cur, hist, last, borrowed, mutex_lock, threads,
          once_cell, callers, once_hist, stream, fd_pos, readbuf, rd, tty, sock>>

arenaVars == <<tasks, free_list_head, ready_list_head, len>>
reactorVars == <<io, io_wakers, sleepers>>

Sat(n) == IF n >= MaxCount THEN MaxCount ELSE n + 1

\* ------------------------------------------------------------- task arena
Waiting(task) == [st |-> "Waiting", task |-> task, next |-> USIZE_MAX]
Ready(task, next) == [st |-> "Ready", task |-> task, next |-> next]
Running == [st |-> "Running", task |-> NoTask, next |-> USIZE_MAX]
Vacant(next) == [st |-> "Vacant", task |-> NoTask, next |-> next]

\* The arena as one value, for the operators below.
Arena == [tasks |-> tasks, free_list_head |-> free_list_head,
          ready_list_head |-> ready_list_head, len |-> len]

\* Vec::get: Some(slot) iff the index is in bounds.
InBounds(a, id) == id >= 0 /\ id < Len(a.tasks)

\* A faulty insert, for comparison: len is not incremented on reuse.
InsertLenBug(a, task, oom) ==
    LET new_slot == Ready(task, a.ready_list_head) IN
    IF InBounds(a, a.free_list_head)
    THEN [ok |-> TRUE,
          a |-> [tasks |-> [a.tasks EXCEPT ![a.free_list_head + 1] = new_slot],
                 ready_list_head |-> a.free_list_head,
                 free_list_head |-> a.tasks[a.free_list_head + 1].next,
                 len |-> a.len]]
    ELSE IF oom THEN [ok |-> FALSE, a |-> a]
    ELSE [ok |-> TRUE,
          a |-> [tasks |-> Append(a.tasks, new_slot),
                 ready_list_head |-> Len(a.tasks),
                 free_list_head |-> a.free_list_head,
                 len |-> a.len + 1]]

\* A faulty insert, for comparison: always pushes a new slot.
InsertAlwaysGrows(a, task, oom) ==
    IF oom THEN [ok |-> FALSE, a |-> a]
    ELSE [ok |-> TRUE,
          a |-> [tasks |-> Append(a.tasks, Ready(task, a.ready_list_head)),
                 ready_list_head |-> Len(a.tasks),
                 free_list_head |-> a.free_list_head,
                 len |-> a.len + 1]]

\* Tasks::insert. `oom` is whether try_push's allocation fails.
Insert(a, task, oom) ==
    LET new_slot == Ready(task, a.ready_list_head) IN
    IF InBounds(a, a.free_list_head)
    THEN [ok |-> TRUE,
          a |-> [tasks |-> [a.tasks EXCEPT ![a.free_list_head + 1] = new_slot],
                 ready_list_head |-> a.free_list_head,
                 free_list_head |-> a.tasks[a.free_list_head + 1].next,
                 len |-> a.len + 1]]
    ELSE IF oom THEN [ok |-> FALSE, a |-> a]
    ELSE [ok |-> TRUE,
          a |-> [tasks |-> Append(a.tasks, new_slot),
                 ready_list_head |-> Len(a.tasks),
                 free_list_head |-> a.free_list_head,
                 len |-> a.len + 1]]

\* A faulty take_any_ready_task, for comparison: with two tasks Ready it
\* takes the one behind the head.
TakeSecondReadyTask(a) ==
    LET h == a.ready_list_head
        n == IF InBounds(a, h) THEN a.tasks[h + 1].next ELSE USIZE_MAX
    IN  IF ~InBounds(a, h) THEN [some |-> FALSE, id |-> USIZE_MAX, task |-> NoTask, a |-> a]
        ELSE IF ~InBounds(a, n)
        THEN [some |-> TRUE, id |-> h, task |-> a.tasks[h + 1].task,
              a |-> [a EXCEPT !.tasks[h + 1] = Running, !.ready_list_head = n]]
        ELSE [some |-> TRUE, id |-> n, task |-> a.tasks[n + 1].task,
              a |-> [a EXCEPT !.tasks[n + 1] = Running,
                              !.tasks[h + 1] = Ready(a.tasks[h + 1].task, a.tasks[n + 1].next)]]

\* A faulty take_any_ready_task, for comparison: the rest of the Ready list
\* is cut off.
TakeAnyReadyTaskCutsList(a) ==
    LET id == a.ready_list_head IN
    IF ~InBounds(a, id) THEN [some |-> FALSE, id |-> USIZE_MAX, task |-> NoTask, a |-> a]
    ELSE [some |-> TRUE, id |-> id, task |-> a.tasks[id + 1].task,
          a |-> [a EXCEPT !.tasks[id + 1] = Running,
                          !.ready_list_head = USIZE_MAX]]

\* Tasks::take_any_ready_task: None iff the ready list is empty.
TakeAnyReadyTask(a) ==
    LET id == a.ready_list_head IN
    IF ~InBounds(a, id) THEN [some |-> FALSE, id |-> USIZE_MAX, task |-> NoTask, a |-> a]
    ELSE [some |-> TRUE, id |-> id, task |-> a.tasks[id + 1].task,
          a |-> [a EXCEPT !.tasks[id + 1] = Running,
                          !.ready_list_head = a.tasks[id + 1].next]]

\* A faulty put_back_waiting, for comparison: the slot is relinked as Ready.
PutBackReady(a, id, task) ==
    [a EXCEPT !.tasks[id + 1] = Ready(task, a.ready_list_head),
              !.ready_list_head = id]

\* A faulty put_back_waiting, for comparison: the slot is freed.
PutBackWaitingDrops(a, id, task) ==
    [a EXCEPT !.tasks[id + 1] = Vacant(a.free_list_head),
              !.free_list_head = id,
              !.len = a.len - 1]

\* Tasks::put_back_waiting. The caller guarantees that slot id is Running.
PutBackWaiting(a, id, task) == [a EXCEPT !.tasks[id + 1] = Waiting(task)]

\* A faulty put_back_nothing, for comparison: len is kept.
PutBackNothingKeepsLen(a, id) ==
    [a EXCEPT !.tasks[id + 1] = Vacant(a.free_list_head),
              !.free_list_head = id]

\* Tasks::put_back_nothing. The caller guarantees that slot id is Running.
PutBackNothing(a, id) ==
    [a EXCEPT !.tasks[id + 1] = Vacant(a.free_list_head),
              !.free_list_head = id,
              !.len = a.len - 1]

\* A faulty mark_ready, for comparison: the slot state is not tested.
MarkReadyAnyState(a, id) ==
    IF ~InBounds(a, id) THEN [ret |-> FALSE, a |-> a]
    ELSE [ret |-> TRUE,
          a |-> [a EXCEPT !.tasks[id + 1] = Ready(a.tasks[id + 1].task, a.ready_list_head),
                          !.ready_list_head = id]]

\* A faulty mark_ready, for comparison: the slot is not linked to the head.
MarkReadyAppends(a, id) ==
    IF ~InBounds(a, id) THEN [ret |-> FALSE, a |-> a]
    ELSE IF a.tasks[id + 1].st # "Waiting" THEN [ret |-> FALSE, a |-> a]
    ELSE [ret |-> TRUE,
          a |-> [a EXCEPT !.tasks[id + 1] = Ready(a.tasks[id + 1].task, USIZE_MAX)]]

\* Tasks::mark_ready.
MarkReady(a, id) ==
    IF ~InBounds(a, id) THEN [ret |-> FALSE, a |-> a]
    ELSE IF a.tasks[id + 1].st # "Waiting" THEN [ret |-> FALSE, a |-> a]
    ELSE [ret |-> TRUE,
          a |-> [a EXCEPT !.tasks[id + 1] = Ready(a.tasks[id + 1].task, a.ready_list_head),
                          !.ready_list_head = id]]

\* ------------------------------------------------------------- waker bridge
\* raw_waker_from_task_id: the TaskId cast to the data pointer (a usize as
\* *const (), same width: every bit kept), with the one VTABLE.
RawWakerFromTaskId(task) == [data |-> task, vtable |-> "VTABLE"]

\* waker_from_task_id.
WakerFromTaskId(task) == RawWakerFromTaskId(task)

\* VTABLE clone: the data pointer cast back to a TaskId, and a handle from it.
WakerClone(this) == RawWakerFromTaskId(this)

\* wake_up_manual: mark_ready(id), the result dropped.
WakeUpManual(a, id) == MarkReady(a, id).a

\* VTABLE wake.
WakerWake(a, this) == WakeUpManual(a, this)

\* A faulty wake_by_ref, for comparison: nothing is done.
WakerWakeByRefNoOp(a, this) == a

\* VTABLE wake_by_ref.
WakerWakeByRef(a, this) == WakeUpManual(a, this)

\* VTABLE drop: nothing is done.
WakerDrop(a, this) == a

RECURSIVE ApplyWakes(_, _)
\* The wake handles of the tasks of `woken` invoked in order (Waker::wake).
ApplyWakes(a, woken) ==
    IF woken = <<>> THEN a
    ELSE ApplyWakes(WakerWake(a, WakerFromTaskId(Head(woken)).data), Tail(woken))

\* ------------------------------------------------------------- reactor
\* PollFd::new: revents starts empty.
PollFd(fd) == [fd |-> fd, events |-> {"IN"}, revents |-> {}]

\* PollFd::ready as its doc comment describes it: non-zero revents.
PollFdReadyNonEmpty(p) == p.revents # {}

\* PollFd::ready, as the code computes it: self.revents().is_empty().
PollFdReady(p) == p.revents = {}

\* A faulty is_empty, for comparison: the sleepers are ignored.
IsEmptyIoOnly(i, s) == Len(i) = 0

\* A faulty is_empty, for comparison: the I/O interests are ignored.
IsEmptyTimersOnly(i, s) == Len(s) = 0

\* TaskWaker::is_empty.
IsEmpty(i, s) == Len(i) = 0 /\ Len(s) = 0

\* swap_remove_unchecked, for an index (0-based) below the length.
SwapRemove(v, index) ==
    LET new_len == Len(v) - 1 IN
    IF new_len # index
    THEN SubSeq([v EXCEPT ![index + 1] = v[new_len + 1]], 1, new_len)
    ELSE SubSeq(v, 1, new_len)

\* BinaryHeap::peek under Sleeper's ordering: a sleeper of least instant.
MinInstant(s) == CHOOSE m \in {s[i].instant : i \in 1 .. Len(s)} :
                     \A i \in 1 .. Len(s) : m <= s[i].instant

RemoveAt(s, i) == SubSeq(s, 1, i - 1) \o SubSeq(s, i + 1, Len(s))

\* Instant::saturating_sub.
SaturatingSub(a, b) == IF a >= b THEN a - b ELSE 0

\* The timeout wait_any computes: None when no timer is outstanding.
WaitTimeout(s, t) ==
    IF Len(s) = 0 THEN [some |-> FALSE, d |-> 0]
    ELSE [some |-> TRUE, d |-> SaturatingSub(MinInstant(s), t)]

\* A faulty conversion, for comparison: every timeout becomes 0.
PollTimeoutMsZero(timeout) == IF ~timeout.some THEN -1 ELSE 0

\* fd::poll's conversion of the timeout to the c_int of milliseconds that
\* libc::poll takes: as_millis truncates, and -1 means "no timeout".
PollTimeoutMs(timeout) ==
    IF ~timeout.some THEN -1
    ELSE IF timeout.d \div TicksPerMs > C_INT_MAX THEN -1
    ELSE timeout.d \div TicksPerMs

\* libc::poll on `fds` with `ms` milliseconds of timeout, called at time t
\* with the descriptors `rdy` ready. The outcomes: an error (a signal), or
\* the entries with their revents set, their count, the time of the return
\* and the descriptors ready then. With an entry ready at the call the
\* readiness reported is that of the call; otherwise readiness may arrive
\* while the call blocks, or the timeout expires with nothing ready.
OsPoll(fds, ms, t, rdy) ==
    LET Mark(R) == [i \in 1 .. Len(fds) |->
                        [fds[i] EXCEPT !.revents = IF fds[i].fd \in R THEN {"IN"} ELSE {}]]
        Count(R) == Cardinality({i \in 1 .. Len(fds) : fds[i].fd \in R})
        Sets == IF \E i \in 1 .. Len(fds) : fds[i].fd \in rdy THEN {rdy} ELSE SUBSET Fds
    IN  {[err |-> TRUE, fds |-> fds, count |-> 0, now |-> t2, rdy |-> rdy] : t2 \in t .. MaxTime}
        \cup
        {[err |-> FALSE, fds |-> Mark(o.R), count |-> Count(o.R), now |-> o.t2, rdy |-> o.R] :
            o \in {x \in [R : Sets, t2 : t .. MaxTime] :
                      Count(x.R) = 0 => (ms >= 0 /\ x.t2 >= t + ms * TicksPerMs)}}

\* A faulty timer loop, for comparison: every sleeper is popped, due or not,
\* in the order of registration.
PopDueAll(s, t, woken) ==
    {[sleepers |-> <<>>, woken |-> woken \o [k \in 1 .. Len(s) |-> s[k].waker]]}

RECURSIVE PopDue(_, _, _)
\* The timer loop of wait_any: pops every sleeper due at `t`, soonest first.
\* BinaryHeap leaves the order of sleepers of equal instant open.
PopDue(s, t, woken) ==
    IF Len(s) = 0 THEN {[sleepers |-> s, woken |-> woken]}
    ELSE IF t >= MinInstant(s)
    THEN UNION {PopDue(RemoveAt(s, i), t, Append(woken, s[i].waker)) :
                    i \in {j \in 1 .. Len(s) : s[j].instant = MinInstant(s)}}
    ELSE {[sleepers |-> s, woken |-> woken]}

RECURSIVE ScanIo(_, _, _, _, _)
\* The I/O loop of wait_any. Reading io[index] with index past the end is
\* undefined behaviour (get_unchecked): the debug build stops at the
\* debug_assert (abort); the release build reads whatever lies behind the
\* vector, and when that passes for a ready entry swap_remove_unchecked
\* shortens both vectors by one and a stale handle g is invoked.
ScanIo(i, w, index, ready, woken) ==
    IF ready = 0
    THEN {[io |-> i, io_wakers |-> w, woken |-> woken, abort |-> FALSE]}
    ELSE IF index < Len(i)
    THEN IF PollFdReady(i[index + 1])
         THEN ScanIo(SwapRemove(i, index), SwapRemove(w, index), index, ready - 1,
                     Append(woken, w[index + 1]))
         ELSE ScanIo(i, w, index + 1, ready, woken)
    ELSE {[io |-> i, io_wakers |-> w, woken |-> woken, abort |-> TRUE]}
         \cup (IF Len(i) = 0 THEN {}
               ELSE UNION {ScanIo(SubSeq(i, 1, Len(i) - 1), SubSeq(w, 1, Len(w) - 1),
                                  index, ready - 1, Append(woken, g)) : g \in TaskIds})

\* The revents of an entry are written by each poll and read only by the scan
\* that follows it: between two calls the model keeps them cleared.
ClearRevents(i) == [k \in 1 .. Len(i) |-> [i[k] EXCEPT !.revents = {}]]

\* A faulty wait_any, for comparison: the timer loop runs also when poll
\* has failed.
WaitAnyPopsOnError(i, w, s, t, rdy) ==
    UNION {
        IF p.err
        THEN {[err |-> TRUE, abort |-> FALSE, io |-> i, io_wakers |-> w, sleepers |-> tp.sleepers,
               woken |-> tp.woken, timers |-> Len(tp.woken), now |-> p.now, rdy |-> p.rdy,
               count |-> 0] : tp \in PopDue(s, p.now, <<>>)}
        ELSE UNION {
            {[err |-> FALSE, abort |-> sc.abort, io |-> ClearRevents(sc.io), io_wakers |-> sc.io_wakers,
              sleepers |-> tp.sleepers, woken |-> sc.woken, timers |-> Len(tp.woken),
              now |-> p.now, rdy |-> p.rdy, count |-> p.count] :
                sc \in ScanIo(p.fds, w, 0, p.count, tp.woken)} :
            tp \in PopDue(s, p.now, <<>>)} :
        p \in OsPoll(i, PollTimeoutMs(WaitTimeout(s, t)), t, rdy)}

\* TaskWaker::wait_any: every outcome of one call.
WaitAny(i, w, s, t, rdy) ==
    UNION {
        IF p.err
        THEN {[err |-> TRUE, abort |-> FALSE, io |-> i, io_wakers |-> w, sleepers |-> s,
               woken |-> <<>>, timers |-> 0, now |-> p.now, rdy |-> p.rdy, count |-> 0]}
        ELSE UNION {
            {[err |-> FALSE, abort |-> sc.abort, io |-> ClearRevents(sc.io), io_wakers |-> sc.io_wakers,
              sleepers |-> tp.sleepers, woken |-> sc.woken, timers |-> Len(tp.woken),
              now |-> p.now, rdy |-> p.rdy, count |-> p.count] :
                sc \in ScanIo(p.fds, w, 0, p.count, tp.woken)} :
            tp \in PopDue(s, p.now, <<>>)} :
        p \in OsPoll(i, PollTimeoutMs(WaitTimeout(s, t)), t, rdy)}

\* ------------------------------------------------------------- cells
\* UnsafeRefCell::new for TASKS and WAKER: not borrowed.
Unborrowed == [TASKS |-> FALSE, WAKER |-> FALSE, panicked |-> FALSE]

\* UnsafeRefCell::update, entered: `assert!(!self.borrowed.replace(true))`.
UpdateEnter(b, cell) == [b EXCEPT ![cell] = TRUE, !.panicked = @ \/ b[cell]]

\* A faulty update, for comparison: no guard resets the flag.
UpdateReturnNoGuard(b, cell) == b

\* UnsafeRefCell::update, left by return or by unwinding: the Guard created
\* after the assert runs `self.borrowed.set(false)`.
UpdateReturn(b, cell) == [b EXCEPT ![cell] = FALSE]

\* update with a closure that calls no function of the runtime: insert,
\* mark_ready, take_any_ready_task, put_back_*, len, clear, is_empty and the
\* registrations.
Update(b, cell) == UpdateReturn(UpdateEnter(b, cell), cell)

RECURSIVE FireHandles(_, _)
\* n handles invoked one after the other: each is wake_up_manual, an update
\* of TASKS.
FireHandles(b, n) == IF n = 0 THEN b ELSE FireHandles(Update(b, "TASKS"), n - 1)

\* `WAKER.update(|waker| waker.wait_any())` of run_until_idle, wait_any
\* invoking n handles before it returns.
UpdateWaitAny(b, n) == UpdateReturn(FireHandles(UpdateEnter(b, "WAKER"), n), "WAKER")

\* ------------------------------------------------------------- driver
NoCur == [id |-> USIZE_MAX, task |-> NoTask]

NoOp == [op |-> "none", id |-> USIZE_MAX, ok |-> TRUE, ret |-> 0, woken |-> <<>>, timers |-> 0, t0 |-> 0,
         fired |-> {}]

Max(a, b) == IF a >= b THEN a ELSE b

\* History of a traced run: one more, when tracing is on.
Count(h, n) == IF h.on THEN Sat(n) ELSE n

\* History of a traced run: one more run_until_idle call since the first spawn.
CountRun(h) == IF h.spawned # <<>> THEN Sat(h.runs) ELSE h.runs

\* History: how often a future has been polled; untraced, whether it has.
Polled(h, n) == IF h.on THEN Sat(n) ELSE 1

RECURSIVE Woke(_, _, _)
\* History: the handles of `woken` were invoked in order from arena `a`;
\* wokenSince[id] records an invocation that found slot id Waiting.
Woke(w, a, woken) ==
    IF woken = <<>> THEN w
    ELSE LET id == Head(woken)
             hit == InBounds(a, id) /\ a.tasks[id + 1].st = "Waiting"
         IN  Woke(IF hit THEN [w EXCEPT ![id] = TRUE] ELSE w,
                  MarkReady(a, id).a, Tail(woken))

RECURSIVE Readied(_, _, _)
\* History: the tasks that are Ready, the one that became Ready last first,
\* after the handles of `woken` were invoked in order from arena `a`.
Readied(order, a, woken) ==
    IF woken = <<>> THEN order
    ELSE LET id == Head(woken)
             r == MarkReady(a, id)
         IN  Readied(IF r.ret THEN <<id>> \o order ELSE order, r.a, Tail(woken))

SetArena(a) ==
    /\ tasks' = a.tasks
    /\ free_list_head' = a.free_list_head
    /\ ready_list_head' = a.ready_list_head
    /\ len' = a.len

\* run_until_idle is polling a future of this kind.
Polling(kind) == pc = "poll" /\ cur.task.kind = kind

\* Mutex::new: the lock is L::UNLOCKED, and no thread holds a Guard.
MutexNew ==
    /\ mutex_lock = "Unlocked"
    /\ threads = [t \in Threads |-> [at |-> "out", state |-> "Unlocked"]]

\* No address formatted yet.
SockNew ==
    sock = [ip |-> [i \in 1 .. 16 |-> 0], port |-> 0, text |-> <<>>, shown |-> FALSE]

\* No read_non_canonical call yet: the terminal is in canonical mode.
TtyNew ==
    tty = [at |-> "out", state |-> "Initial", utf8_buf |-> <<>>, canonical |-> TRUE,
           ret |-> 0, called |-> FALSE, event |-> "none", flow |-> [kind |-> "Continue", r |-> 0]]

\* ReadBuffer::new, no byte read and no call made.
ReadBufferNew ==
    /\ readbuf = [data |-> <<>>, capacity |-> 0, head |-> 0, tail |-> 0]
    /\ fd_pos = 0
    /\ rd = [phase |-> "idle"]

\* OnceCell::new: not initialized, the value uninit; no call is under way.
OnceNew ==
    /\ once_cell = [initialized |-> FALSE, value |-> 0]
    /\ callers = [t \in Threads |-> [at |-> "out", call |-> "none", value |-> t,
                                     ret |-> "none", got |-> 0]]
    /\ once_hist = [oks |-> 0, overwritten |-> FALSE]

\* The runtime's statics as the program starts: Tasks::new, TaskWaker::new.
RuntimeNew(on) ==
    /\ tasks = <<>>
    /\ free_list_head = USIZE_MAX
    /\ ready_list_head = USIZE_MAX
    /\ len = 0
    /\ io = <<>>
    /\ io_wakers = <<>>
    /\ sleepers = <<>>
    /\ now = 0
    /\ fdReady = {}
    /\ pc = "idle"
    /\ cur = NoCur
    /\ hist = [on |-> on, live |-> 0, runs |-> 0, waits |-> 0,
               polls |-> 0, maxLive |-> 0, spawned |-> <<>>,
               wokenSince |-> [id \in TaskIds |-> FALSE], readyOrder |-> <<>>,
               freeOrder |-> <<>>, wokenRunning |-> {}]
    /\ last = NoOp
    /\ borrowed = Unborrowed

\* What the runtime does not touch, as the program starts.
LibNew ==
    /\ MutexNew
    /\ OnceNew
    /\ ReadBufferNew
    /\ stream = <<>>
    /\ TtyNew
    /\ SockNew

InitWith(on) ==
    /\ RuntimeNew(on)
    /\ LibNew

Init == InitWith(FALSE)

\* try_spawn_boxed: Tasks::insert, from the program or from a polled future.
Spawn(kind, fd, oom) ==
    /\ pc = "idle" \/ Polling("any")
    /\ InBounds(Arena, free_list_head) \/ Len(tasks) < MaxSlots
    /\ LET r == Insert(Arena, [kind |-> kind, step |-> 0, fd |-> fd], oom)
       IN  /\ SetArena(r.a)
           /\ hist' = IF r.ok
                      THEN [hist EXCEPT !.live = @ + 1, !.maxLive = Max(@, r.a.len),
                                        !.wokenSince[r.a.ready_list_head] = FALSE,
                                        !.readyOrder = <<r.a.ready_list_head>> \o @,
                                        !.freeOrder =
                                            SelectSeq(@, LAMBDA x : x # r.a.ready_list_head),
                                        !.spawned = IF hist.on
                                                    THEN Append(@, [kind |-> kind, fd |-> fd])
                                                    ELSE @]
                      ELSE hist
           /\ last' = [NoOp EXCEPT !.op = "insert", !.ok = r.ok,
                              !.id = IF r.ok THEN r.a.ready_list_head ELSE USIZE_MAX]
    /\ UNCHANGED <<io, io_wakers, sleepers, now, fdReady, pc, cur>>
    /\ borrowed' = Update(borrowed, "TASKS")
    /\ UNCHANGED libVars

\* A wake handle for `id` is invoked (wake or wake_by_ref): wake_up_manual,
\* from the program or from a polled future.
Wake(id) ==
    /\ pc = "idle" \/ Polling("any")
    /\ LET r == MarkReady(Arena, id)
           h == WakerFromTaskId(id)
       IN  /\ \E by_ref \in BOOLEAN :
                 SetArena(IF by_ref THEN WakerWakeByRef(Arena, h.data)
                                    ELSE WakerWake(Arena, h.data))
           /\ last' = [NoOp EXCEPT !.op = "mark_ready", !.id = id, !.ok = r.ret]
    /\ hist' = [hist EXCEPT !.wokenSince = Woke(@, Arena, <<id>>),
                            !.readyOrder = Readied(@, Arena, <<id>>),
                            !.wokenRunning = IF pc = "poll" /\ id = cur.id
                                             THEN @ \cup {id} ELSE @]
    /\ UNCHANGED <<io, io_wakers, sleepers, now, fdReady, pc, cur>>
    /\ borrowed' = Update(borrowed, "TASKS")
    /\ UNCHANGED libVars

\* A faulty wake_me_up_on_io, for comparison: the PollFd is pushed before the
\* allocation for the handle fails.
WakeMeUpOnIoHalf(fd, oom) ==
    /\ Polling("any")
    /\ Len(io) < MaxIo
    /\ io' = Append(io, PollFd(fd))
    /\ io_wakers' = IF oom THEN io_wakers ELSE Append(io_wakers, cur.id)
    /\ last' = [NoOp EXCEPT !.op = "wake_me_up_on_io", !.ok = ~oom]
    /\ UNCHANGED <<tasks, free_list_head, ready_list_head, len, sleepers, now, fdReady,
                   pc, cur, hist>>
    /\ borrowed' = Update(borrowed, "WAKER")
    /\ UNCHANGED libVars

\* wake_me_up_on_io with cx.waker().clone(), from a polled future.
WakeMeUpOnIo(fd, oom) ==
    /\ Polling("any")
    /\ Len(io) < MaxIo
    /\ io' = IF oom THEN io ELSE Append(io, PollFd(fd))
    /\ io_wakers' = IF oom THEN io_wakers ELSE Append(io_wakers, cur.id)
    /\ last' = [NoOp EXCEPT !.op = "wake_me_up_on_io", !.ok = ~oom]
    /\ UNCHANGED <<tasks, free_list_head, ready_list_head, len, sleepers, now, fdReady,
                   pc, cur, hist>>
    /\ borrowed' = Update(borrowed, "WAKER")
    /\ UNCHANGED libVars

\* wake_me_up_on_time with cx.waker().clone(), from a polled future.
WakeMeUpOnTime(at, oom) ==
    /\ Polling("any")
    /\ Len(sleepers) < MaxSleepers
    /\ sleepers' = IF oom THEN sleepers
                   ELSE Append(sleepers, [instant |-> at, waker |-> cur.id])
    /\ last' = [NoOp EXCEPT !.op = "wake_me_up_on_time", !.ok = ~oom]
    /\ UNCHANGED <<tasks, free_list_head, ready_list_head, len, io, io_wakers, now, fdReady,
                   pc, cur, hist>>
    /\ borrowed' = Update(borrowed, "WAKER")
    /\ UNCHANGED libVars

\* run_until_idle, entered with an empty reactor: no wait.
RunEnterNoWait ==
    /\ pc = "idle"
    /\ IsEmpty(io, sleepers)
    /\ pc' = "loop"
    /\ hist' = [hist EXCEPT !.runs = CountRun(hist), !.waits = 0, !.polls = 0]
    /\ last' = NoOp
    /\ UNCHANGED <<tasks, free_list_head, ready_list_head, len, io, io_wakers, sleepers,
                   now, fdReady, cur>>
    /\ borrowed' = Update(borrowed, "WAKER")
    /\ UNCHANGED libVars

\* run_until_idle, entered with a non-empty reactor: one wait_any call. An
\* error of the wait is returned at once; an abort ends the program.
RunEnterWait ==
    /\ pc = "idle"
    /\ ~IsEmpty(io, sleepers)
    /\ \E o \in WaitAny(io, io_wakers, sleepers, now, fdReady) :
        /\ io' = o.io
        /\ io_wakers' = o.io_wakers
        /\ sleepers' = o.sleepers
        /\ now' = o.now
        /\ fdReady' = o.rdy
        /\ SetArena(ApplyWakes(Arena, o.woken))
        /\ borrowed' = UpdateWaitAny(borrowed, Len(o.woken))
        /\ pc' = IF o.abort THEN "aborted" ELSE IF o.err THEN "idle" ELSE "loop"
        /\ hist' = [hist EXCEPT !.runs = CountRun(hist),
                                !.waits = IF hist.on THEN 1 ELSE 0,
                                !.polls = 0,
                                !.wokenSince = Woke(@, Arena, o.woken),
                                !.readyOrder = Readied(@, Arena, o.woken)]
        /\ last' = [op |-> "wait_any", id |-> USIZE_MAX, ok |-> ~o.err /\ ~o.abort, ret |-> o.count,
                    woken |-> o.woken, timers |-> o.timers, t0 |-> now,
                    fired |-> {io[k].fd : k \in 1 .. Len(io)}
                              \ {o.io[k].fd : k \in 1 .. Len(o.io)}]
    /\ UNCHANGED cur
    /\ UNCHANGED libVars

\* The loop of run_until_idle: take_any_ready_task found a task.
TakeTask ==
    /\ pc = "loop"
    /\ LET r == TakeAnyReadyTask(Arena)
       IN  /\ r.some
           /\ SetArena(r.a)
           /\ cur' = [id |-> r.id, task |-> [r.task EXCEPT !.step = Polled(hist, @)]]
           /\ hist' = [hist EXCEPT !.polls = Count(hist, @), !.wokenSince[r.id] = FALSE,
                                   !.readyOrder = SelectSeq(@, LAMBDA x : x # r.id),
                                   !.wokenRunning = @ \ {r.id}]
    /\ pc' = "poll"
    /\ last' = NoOp
    /\ UNCHANGED <<io, io_wakers, sleepers, now, fdReady>>
    /\ borrowed' = Update(borrowed, "TASKS")
    /\ UNCHANGED libVars

\* The loop of run_until_idle ends: Ok(tasks.len()).
RunReturn ==
    /\ pc = "loop"
    /\ ~TakeAnyReadyTask(Arena).some
    /\ pc' = "idle"
    /\ last' = [NoOp EXCEPT !.op = "run_until_idle", !.ret = len]
    /\ UNCHANGED <<tasks, free_list_head, ready_list_head, len, io, io_wakers, sleepers,
                   now, fdReady, cur, hist>>
    /\ borrowed' = Update(Update(borrowed, "TASKS"), "TASKS")
    /\ UNCHANGED libVars

\* Poll::Pending: put_back_waiting.
Pending(task) ==
    /\ SetArena(PutBackWaiting(Arena, cur.id, task))
    /\ last' = NoOp
    /\ pc' = "loop"
    /\ cur' = NoCur
    /\ UNCHANGED hist
    /\ borrowed' = Update(borrowed, "TASKS")
    /\ UNCHANGED libVars

\* Poll::Ready(()): put_back_nothing, then the task is dropped.
Finished ==
    /\ SetArena(PutBackNothing(Arena, cur.id))
    /\ hist' = [hist EXCEPT !.live = @ - 1, !.freeOrder = <<cur.id>> \o @,
                            !.wokenRunning = @ \ {cur.id}]
    /\ last' = NoOp
    /\ pc' = "loop"
    /\ cur' = NoCur
    /\ borrowed' = Update(borrowed, "TASKS")
    /\ UNCHANGED libVars

\* An arbitrary future reports Pending.
ReturnPending ==
    /\ Polling("any")
    /\ Pending(cur.task)
    /\ UNCHANGED <<io, io_wakers, sleepers, now, fdReady>>

\* An arbitrary future reports Ready.
ReturnReady ==
    /\ Polling("any")
    /\ Finished
    /\ UNCHANGED <<io, io_wakers, sleepers, now, fdReady>>

\* Tasks A and C: Ready on the first resume.
PollDone ==
    /\ Polling("done")
    /\ Finished
    /\ UNCHANGED <<io, io_wakers, sleepers, now, fdReady>>

\* Task B, first resume: registers a timer with its own handle, Pending.
PollTimerFirst ==
    /\ Polling("timer")
    /\ cur.task.step = 1
    /\ Len(sleepers) < MaxSleepers
    /\ now + TimerDelay <= MaxTime
    /\ sleepers' = Append(sleepers, [instant |-> now + TimerDelay, waker |-> cur.id])
    /\ Pending(cur.task)
    /\ UNCHANGED <<io, io_wakers, now, fdReady>>

\* Task D, first resume: registers I/O interest with its own handle, Pending.
PollIoFirst ==
    /\ Polling("io")
    /\ cur.task.step = 1
    /\ Len(io) < MaxIo
    /\ io' = Append(io, PollFd(cur.task.fd))
    /\ io_wakers' = Append(io_wakers, cur.id)
    /\ Pending(cur.task)
    /\ UNCHANGED <<sleepers, now, fdReady>>

\* Tasks B and D, second resume: Ready.
PollSecond ==
    /\ Polling("timer") \/ Polling("io")
    /\ cur.task.step > 1
    /\ Finished
    /\ UNCHANGED <<io, io_wakers, sleepers, now, fdReady>>

\* A future that is one Fd::poll_read: the read succeeds.
PollReadReady ==
    /\ Polling("read")
    /\ cur.task.fd \in fdReady
    /\ Finished
    /\ UNCHANGED <<io, io_wakers, sleepers, now, fdReady>>

\* A future that is one Fd::poll_read: the read would block.
PollReadWouldBlock ==
    /\ Polling("read")
    /\ cur.task.fd \notin fdReady
    /\ Len(io) < MaxIo
    /\ io' = Append(io, PollFd(cur.task.fd))
    /\ io_wakers' = Append(io_wakers, cur.id)
    /\ Pending(cur.task)
    /\ UNCHANGED <<sleepers, now, fdReady>>

\* The environment: a descriptor becomes ready, or stops being ready.
EnvFd(fd) ==
    /\ pc = "idle"
    /\ fdReady' = IF fd \in fdReady THEN fdReady \ {fd} ELSE fdReady \cup {fd}
    /\ last' = NoOp
    /\ UNCHANGED <<tasks, free_list_head, ready_list_head, len, io, io_wakers, sleepers,
                   now, pc, cur, hist>>
    /\ borrowed' = borrowed
    /\ UNCHANGED libVars

\* The environment: time passes between two calls of the program.
Tick ==
    /\ pc = "idle"
    /\ now < MaxTime
    /\ now' = now + 1
    /\ last' = NoOp
    /\ UNCHANGED <<tasks, free_list_head, ready_list_head, len, io, io_wakers, sleepers,
                   fdReady, pc, cur, hist>>
    /\ borrowed' = borrowed
    /\ UNCHANGED libVars

\* Tasks::clear, as single_thread::clear calls it: every task is dropped
\* and the arena is as Tasks::new leaves it.
TasksClear(a) ==
    [tasks |-> <<>>, free_list_head |-> USIZE_MAX, ready_list_head |-> USIZE_MAX, len |-> 0]

\* TaskWaker::clear: the three collections are emptied, no handle is invoked.
TaskWakerClear(i, w, s) == [io |-> <<>>, io_wakers |-> <<>>, sleepers |-> <<>>]

\* single_thread::clear, called by the program between two runs (`last`
\* keeps the number of tasks it dropped).
Clear ==
    /\ pc = "idle"
    /\ SetArena(TasksClear(Arena))
    /\ LET w == TaskWakerClear(io, io_wakers, sleepers)
       IN  /\ io' = w.io
           /\ io_wakers' = w.io_wakers
           /\ sleepers' = w.sleepers
    /\ hist' = [hist EXCEPT !.live = 0, !.wokenSince = [id \in TaskIds |-> FALSE],
                            !.readyOrder = <<>>, !.freeOrder = <<>>,
                            !.wokenRunning = {}]
    /\ last' = [NoOp EXCEPT !.op = "clear", !.ret = len]
    /\ UNCHANGED <<now, fdReady, pc, cur>>
    /\ borrowed' = Update(Update(borrowed, "TASKS"), "WAKER")
    /\ UNCHANGED libVars

\* The arena and the driver under arbitrary futures that register no
\* interest: every handle is invoked by the program or by a future.
NextArena ==
    \/ \E oom \in BOOLEAN : Spawn("any", 0, oom)
    \/ \E id \in TaskIds : Wake(id)
    \/ RunEnterNoWait
    \/ TakeTask
    \/ RunReturn
    \/ ReturnPending
    \/ ReturnReady

SpecArena == Init /\ [][NextArena]_vars

\* The arena and the driver as above, with a program that also resets the
\* runtime.
NextReset ==
    \/ NextArena
    \/ Clear

SpecReset == Init /\ [][NextReset]_vars

\* The descriptor a task waits on when every task has its own.
OwnFd(id) == id + 1

\* The reactor under arbitrary futures that each register interest in their
\* own descriptor, once while the entry stays, with a program that also
\* resets the runtime: the handle registered with an entry is told by the
\* entry's descriptor.
NextPaired ==
    \/ \E oom \in BOOLEAN : Spawn("any", 0, oom)
    \/ \E oom \in BOOLEAN :
         /\ \A k \in 1 .. Len(io) : io[k].fd # OwnFd(cur.id)
         /\ WakeMeUpOnIo(OwnFd(cur.id), oom)
    \/ RunEnterNoWait
    \/ RunEnterWait
    \/ TakeTask
    \/ RunReturn
    \/ ReturnPending
    \/ ReturnReady
    \/ Clear

SpecPaired == Init /\ [][NextPaired]_vars

\* The values that tell the spawned futures apart (kept in the field `fd`
\* of a future that waits on no descriptor).
Tags == 1 .. MaxSlots

\* Where the future `tag` is held: in a Ready or Waiting slot, or by the
\* driver, which took it out of the slot `cur.id` to resume it.
HeldAt(tag) ==
    {id \in TaskIds : /\ InBounds(Arena, id)
                      /\ tasks[id + 1].st \in {"Ready", "Waiting"}
                      /\ tasks[id + 1].task.fd = tag}
    \cup (IF pc = "poll" /\ cur.task.fd = tag THEN {cur.id} ELSE {})

\* The arena and the driver under arbitrary futures that can be told
\* apart: a future is spawned with a value no live future holds.
NextStable ==
    \/ \E tag \in Tags, oom \in BOOLEAN :
         /\ HeldAt(tag) = {}
         /\ Spawn("any", tag, oom)
    \/ \E id \in TaskIds : Wake(id)
    \/ RunEnterNoWait
    \/ TakeTask
    \/ RunReturn
    \/ ReturnPending
    \/ ReturnReady

SpecStable == Init /\ [][NextStable]_vars

\* No interest in the descriptor `fd` is registered.
NoInterest(fd) == \A k \in 1 .. Len(io) : io[k].fd # fd

\* The arena, the driver and the reactor under futures that can be told
\* apart and that each register interest in the descriptor numbered by their
\* own value, once: the future an interest was registered by is told by
\* the descriptor, and it is gone when no live future holds that value; a
\* new future gets the least value that is free. The
\* program and the futures also invoke any handle. There is one value more
\* than slots, for the future that takes the slot of a completed one while
\* the other slots are in use.
NextStale ==
    \/ \E tag \in 1 .. MaxSlots + 1, oom \in BOOLEAN :
         /\ HeldAt(tag) = {}
         /\ NoInterest(tag)
         /\ \A t \in 1 .. tag - 1 : HeldAt(t) # {} \/ ~NoInterest(t)
         /\ Spawn("any", tag, oom)
    \/ \E oom \in BOOLEAN :
         /\ NoInterest(cur.task.fd)
         /\ WakeMeUpOnIo(cur.task.fd, oom)
    \/ \E id \in TaskIds : Wake(id)
    \/ RunEnterNoWait
    \/ RunEnterWait
    \/ TakeTask
    \/ RunReturn
    \/ ReturnPending
    \/ ReturnReady

SpecStale == Init /\ [][NextStale]_vars

\* The executor under arbitrary futures that wait for I/O only.
NextIo ==
    \/ \E oom \in BOOLEAN : Spawn("any", 0, oom)
    \/ \E id \in TaskIds : Wake(id)
    \/ \E fd \in Fds, oom \in BOOLEAN : WakeMeUpOnIo(fd, oom)
    \/ RunEnterNoWait
    \/ RunEnterWait
    \/ TakeTask
    \/ RunReturn
    \/ ReturnPending
    \/ ReturnReady

SpecIo == Init /\ [][NextIo]_vars

\* The executor under arbitrary futures that wait for timers only, with as
\* many slots as timers.
NextTimer ==
    \/ \E oom \in BOOLEAN :
         /\ InBounds(Arena, free_list_head) \/ Len(tasks) < MaxSleepers
         /\ Spawn("any", 0, oom)
    \/ \E at \in Instants, oom \in BOOLEAN : WakeMeUpOnTime(at, oom)
    \/ RunEnterNoWait
    \/ RunEnterWait
    \/ TakeTask
    \/ RunReturn
    \/ ReturnPending
    \/ ReturnReady
    \/ Tick

SpecTimer == Init /\ [][NextTimer]_vars

\* The insertion and registration paths: arbitrary futures that spawn and
\* register interest of both kinds (in the descriptor of the scenarios, and
\* timers TimerDelay ahead), up to the first call that has to wait.
NextRegister ==
    \/ \E oom \in BOOLEAN : Spawn("any", 0, oom)
    \/ \E fd \in ScenarioFds, oom \in BOOLEAN : WakeMeUpOnIo(fd, oom)
    \/ \E oom \in BOOLEAN : WakeMeUpOnTime(now + TimerDelay, oom)
    \/ RunEnterNoWait
    \/ TakeTask
    \/ RunReturn
    \/ ReturnPending
    \/ ReturnReady

SpecRegister == Init /\ [][NextRegister]_vars

\* The executor under arbitrary futures that register interests and timers
\* and invoke no handle themselves, with a program that calls run_until_idle
\* again and again: every call that can start does, poll does not fail for
\* ever, and every resume returns.
NextLive ==
    \/ \E oom \in BOOLEAN : Spawn("any", 0, oom)
    \/ \E fd \in Fds, oom \in BOOLEAN : WakeMeUpOnIo(fd, oom)
    \/ \E at \in Instants, oom \in BOOLEAN : WakeMeUpOnTime(at, oom)
    \/ RunEnterNoWait
    \/ RunEnterWait
    \/ TakeTask
    \/ RunReturn
    \/ ReturnPending
    \/ ReturnReady

Repeated ==
    /\ WF_vars(RunEnterNoWait)
    /\ WF_vars(RunEnterWait /\ last'.ok)
    /\ WF_vars(TakeTask)
    /\ WF_vars(RunReturn)
    /\ WF_vars(ReturnPending \/ ReturnReady)

SpecLive == Init /\ [][NextLive]_vars /\ Repeated

\* The executor under arbitrary futures that spawn, register interests and
\* timers and invoke handles, with a program that also spawns, invokes
\* handles and resets the runtime; with as many slots as timers.
NextCells ==
    \/ \E oom \in BOOLEAN :
         /\ InBounds(Arena, free_list_head) \/ Len(tasks) < MaxSleepers
         /\ Spawn("any", 0, oom)
    \/ \E id \in TaskIds : Wake(id)
    \/ \E fd \in Fds, oom \in BOOLEAN : WakeMeUpOnIo(fd, oom)
    \/ \E at \in Instants, oom \in BOOLEAN : WakeMeUpOnTime(at, oom)
    \/ RunEnterNoWait
    \/ RunEnterWait
    \/ TakeTask
    \/ RunReturn
    \/ ReturnPending
    \/ ReturnReady
    \/ Clear

SpecCells == Init /\ [][NextCells]_vars

\* The executor under arbitrary futures.
Next ==
    \/ \E oom \in BOOLEAN : Spawn("any", 0, oom)
    \/ \E id \in TaskIds : Wake(id)
    \/ \E fd \in Fds, oom \in BOOLEAN : WakeMeUpOnIo(fd, oom)
    \/ \E at \in Instants, oom \in BOOLEAN : WakeMeUpOnTime(at, oom)
    \/ RunEnterNoWait
    \/ RunEnterWait
    \/ TakeTask
    \/ RunReturn
    \/ ReturnPending
    \/ ReturnReady
    \/ \E fd \in Fds : EnvFd(fd)

Spec == Init /\ [][Next]_vars

\* The executor under the futures of the scenarios, with the run traced.
InitScenario == InitWith(TRUE)

NextScenario ==
    \/ \E kind \in ScenarioKinds :
         \E fd \in (IF kind \in {"io", "read"} THEN ScenarioFds ELSE {0}) :
            pc = "idle" /\ Len(hist.spawned) < MaxSpawns /\ Spawn(kind, fd, FALSE)
    \/ RunEnterNoWait
    \/ RunEnterWait
    \/ TakeTask
    \/ RunReturn
    \/ PollDone
    \/ PollTimerFirst
    \/ PollIoFirst
    \/ PollSecond
    \/ PollReadReady
    \/ PollReadWouldBlock
    \/ \E fd \in ScenarioFds : EnvFd(fd)
    \/ Tick

SpecScenario == InitScenario /\ [][NextScenario]_vars

\* Sleep::new(at): instant = at, once = false.
SleepNew(at) == [kind |-> "sleep", step |-> 0, fd |-> 0, instant |-> at, once |-> FALSE]

\* async_sleep(duration): Sleep::new(now.saturating_add(duration)).
AsyncSleep(t, duration) == SleepNew(t + duration)

\* async_sleep_until(alarm): Sleep::new(alarm).
AsyncSleepUntil(alarm) == SleepNew(alarm)

\* try_spawn of a task that awaits the Sleep future `sleep`.
SpawnSleep(sleep, oom) ==
    /\ pc = "idle"
    /\ InBounds(Arena, free_list_head) \/ Len(tasks) < MaxSlots
    /\ LET r == Insert(Arena, sleep, oom)
       IN  /\ SetArena(r.a)
           /\ hist' = IF r.ok
                      THEN [hist EXCEPT !.live = @ + 1, !.maxLive = Max(@, r.a.len),
                                        !.wokenSince[r.a.ready_list_head] = FALSE,
                                        !.readyOrder = <<r.a.ready_list_head>> \o @,
                                        !.freeOrder =
                                            SelectSeq(@, LAMBDA x : x # r.a.ready_list_head)]
                      ELSE hist
           /\ last' = [NoOp EXCEPT !.op = "insert", !.ok = r.ok,
                              !.id = IF r.ok THEN r.a.ready_list_head ELSE USIZE_MAX]
    /\ UNCHANGED <<io, io_wakers, sleepers, now, fdReady, pc, cur>>
    /\ borrowed' = Update(borrowed, "TASKS")
    /\ UNCHANGED libVars

\* Sleep::poll: Ready when `once` is set; otherwise wake_me_up_on_time with
\* a clone of the task's handle, whose error is unwrapped (a panic), and
\* Pending. No line of the crate assigns `once` after Sleep::new.
PollSleep(oom) ==
    /\ Polling("sleep")
    /\ IF cur.task.once
       THEN /\ Finished
            /\ UNCHANGED sleepers
       ELSE /\ Len(sleepers) < MaxTimers
            /\ IF oom
               THEN /\ pc' = "aborted"
                    /\ last' = [NoOp EXCEPT !.op = "wake_me_up_on_time", !.ok = FALSE]
                    /\ UNCHANGED <<tasks, free_list_head, ready_list_head, len, sleepers,
                                   cur, hist>>
                    /\ borrowed' = Update(borrowed, "WAKER")
                    /\ UNCHANGED libVars
               ELSE /\ sleepers' = Append(sleepers,
                                         [instant |-> cur.task.instant,
                                          waker |-> WakerClone(WakerFromTaskId(cur.id).data).data])
                    /\ Pending(cur.task)
    /\ UNCHANGED <<io, io_wakers, now, fdReady>>

\* Tasks that await a Sleep, driven by repeated run_until_idle calls while
\* the clock advances.
NextSleep ==
    \/ \E d \in 0 .. TimerDelay, oom \in BOOLEAN : SpawnSleep(AsyncSleep(now, d), oom)
    \/ \E at \in Instants, oom \in BOOLEAN : SpawnSleep(AsyncSleepUntil(at), oom)
    \/ RunEnterNoWait
    \/ RunEnterWait
    \/ TakeTask
    \/ RunReturn
    \/ \E oom \in BOOLEAN : PollSleep(oom)
    \/ Tick

SpecSleep == InitScenario /\ [][NextSleep]_vars

\* The sequences over S of length at most n.
SeqsUpTo(S, n) == UNION {[1 .. k -> S] : k \in 0 .. n}

\* The timer queue s lists its sleepers by task and then by deadline. The
\* heap is used as a bag (PopDue looks at instants only), so one listing
\* stands for every arrangement of the same sleepers.
ListedByTask(s) ==
    \A i, j \in 1 .. Len(s) :
        i < j => \/ s[i].waker < s[j].waker
                 \/ s[i].waker = s[j].waker /\ s[i].instant <= s[j].instant

\* The reactor with timers registered: every slot holds a task that was
\* resumed, registered timers with its own handle (wake_me_up_on_time) and
\* reported Pending; the program is about to call run_until_idle.
InitWait ==
    /\ tasks = [i \in 1 .. MaxSlots |-> Waiting([kind |-> "any", step |-> 1, fd |-> 0])]
    /\ free_list_head = USIZE_MAX
    /\ ready_list_head = USIZE_MAX
    /\ len = MaxSlots
    /\ io = <<>>
    /\ io_wakers = <<>>
    /\ sleepers \in {s \in SeqsUpTo([instant : Deadlines, waker : TaskIds], MaxTimers) :
                        ListedByTask(s)}
    /\ now \in Instants
    /\ fdReady = {}
    /\ pc = "idle"
    /\ cur = NoCur
    /\ hist = [on |-> FALSE, live |-> MaxSlots, runs |-> 0, waits |-> 0,
               polls |-> 0, maxLive |-> MaxSlots, spawned |-> <<>>,
               wokenSince |-> [id \in TaskIds |-> FALSE], readyOrder |-> <<>>,
               freeOrder |-> <<>>, wokenRunning |-> {}]
    /\ last = NoOp
    /\ borrowed = Unborrowed
    /\ LibNew

\* The executor from there, under futures that register nothing more.
NextWait ==
    \/ RunEnterNoWait
    \/ RunEnterWait
    \/ TakeTask
    \/ RunReturn
    \/ ReturnPending
    \/ ReturnReady

SpecWait == InitWait /\ [][NextWait]_vars

\* ------------------------------------------------------------- mutex
\* Mutex::lock with FutexLock: Lock::lock, whose body is empty, and then
\* Guard::new_unchecked.
MutexLock(t) ==
    /\ threads[t].at = "out"
    /\ threads' = [threads EXCEPT ![t].at = "guard"]
    /\ UNCHANGED mutex_lock
    /\ UNCHANGED runtimeVars
    /\ UNCHANGED onceVars
    /\ UNCHANGED readVars
    /\ UNCHANGED <<tty, sock>>

\* Mutex::try_lock, FutexLock::try_lock: the Relaxed load before the loop.
TryLockLoad(t) ==
    /\ threads[t].at = "out"
    /\ threads' = [threads EXCEPT ![t] = [at |-> "try", state |-> mutex_lock]]
    /\ UNCHANGED mutex_lock
    /\ UNCHANGED runtimeVars
    /\ UNCHANGED onceVars
    /\ UNCHANGED readVars
    /\ UNCHANGED <<tty, sock>>

\* FutexLock::try_lock: state != Unlocked, break false; Mutex::try_lock
\* returns None.
TryLockFail(t) ==
    /\ threads[t].at = "try"
    /\ threads[t].state # "Unlocked"
    /\ threads' = [threads EXCEPT ![t] = [at |-> "out", state |-> "Unlocked"]]
    /\ UNCHANGED mutex_lock
    /\ UNCHANGED runtimeVars
    /\ UNCHANGED onceVars
    /\ UNCHANGED readVars
    /\ UNCHANGED <<tty, sock>>

\* FutexLock::try_lock: compare_exchange_weak(Unlocked, Locked). Ok: break
\* true, and Mutex::try_lock makes the Guard. Err(new_state), which a weak
\* exchange may also report spuriously: the loop goes on with new_state.
TryLockCas(t) ==
    /\ threads[t].at = "try"
    /\ threads[t].state = "Unlocked"
    /\ \E spurious \in BOOLEAN :
          IF mutex_lock = "Unlocked" /\ ~spurious
          THEN /\ mutex_lock' = "Locked"
               /\ threads' = [threads EXCEPT ![t] = [at |-> "guard", state |-> "Unlocked"]]
          ELSE /\ threads' = [threads EXCEPT ![t].state = mutex_lock]
               /\ UNCHANGED mutex_lock
    /\ UNCHANGED runtimeVars
    /\ UNCHANGED onceVars
    /\ UNCHANGED readVars
    /\ UNCHANGED <<tty, sock>>

\* Drop for Guard: FutexLock::unlock, swap(Unlocked).
GuardDrop(t) ==
    /\ threads[t].at = "guard"
    /\ mutex_lock' = "Unlocked"
    /\ threads' = [threads EXCEPT ![t].at = "out"]
    /\ UNCHANGED runtimeVars
    /\ UNCHANGED onceVars
    /\ UNCHANGED readVars
    /\ UNCHANGED <<tty, sock>>

\* FutexLock::is_locked: the Relaxed load.
FutexIsLocked(state) == state # "Unlocked"

\* NoBlockLock::is_locked: `self.state.load(Relaxed) == LOCKED`, on the
\* AtomicBool that is false (LOCKED) while the lock is held.
NoBlockIsLocked(state) == state = FALSE

\* PthreadLock::is_locked on a pthread mutex that is held or not: try_lock
\* succeeds when it is not held, the lock is released again and true is
\* returned; when it is held try_lock fails and false is returned.
PthreadIsLocked(held) ==
    IF ~held THEN [ret |-> TRUE, held |-> FALSE]
    ELSE [ret |-> FALSE, held |-> TRUE]

\* Threads that lock, try to lock and drop their guards, in any interleaving.
NextMutex ==
    \/ \E t \in Threads : MutexLock(t)
    \/ \E t \in Threads : TryLockLoad(t)
    \/ \E t \in Threads : TryLockFail(t)
    \/ \E t \in Threads : TryLockCas(t)
    \/ \E t \in Threads : GuardDrop(t)

SpecMutex == Init /\ [][NextMutex]_vars

\* ------------------------------------------------------------- read buffer
Bytes == 1 .. MaxByte

Min(a, b) == IF a <= b THEN a ELSE b

\* ReadBuffer::pending: the bytes from tail to head.
BufPending(b) == SubSeq(b.data, b.tail + 1, b.head)

\* <[u8]>::memchr: the index of the first occurrence of byte in s.
Memchr(s, byte) ==
    IF \E k \in 1 .. Len(s) : s[k] = byte
    THEN [some |-> TRUE,
          index |-> (CHOOSE k \in 1 .. Len(s) :
                        s[k] = byte /\ \A j \in 1 .. k - 1 : s[j] # byte) - 1]
    ELSE [some |-> FALSE, index |-> 0]

\* <[u8]>::starts_with.
StartsWith(s, needle) == Len(needle) <= Len(s) /\ SubSeq(s, 1, Len(needle)) = needle

\* s.get_unchecked(index..)
From(s, index) == SubSeq(s, index + 1, Len(s))

\* usize::saturating_sub.
SatSub(a, b) == IF a >= b THEN a - b ELSE 0

\* usize::MAX, and `a + b` on usize where the build does not check for
\* overflow.
UsizeMax == (2 ^ UsizeBits) - 1

WrappingAdd(a, b) == (a + b) % (2 ^ UsizeBits)

\* ReadBuffer::reserve(count): the results it can have. malloc::allocate
\* can fail, and can return a block larger than asked. When
\* `self.head - self.tail + count` overflows, a build with overflow checks
\* panics and one without goes on with the wrapped sum.
Reserve(b, count) ==
    LET uninit == b.capacity - b.head
        after_move == uninit + b.tail
        moved == [b EXCEPT !.data = BufPending(b), !.head = b.head - b.tail, !.tail = 0]
        overflow == b.head - b.tail + count > UsizeMax
        new_capacity == WrappingAdd(b.head - b.tail, count)
    IN  IF count <= uninit THEN {[ok |-> TRUE, panic |-> FALSE, b |-> b]}
        ELSE IF count <= after_move THEN {[ok |-> TRUE, panic |-> FALSE, b |-> moved]}
        ELSE (IF overflow THEN {[ok |-> FALSE, panic |-> TRUE, b |-> b]} ELSE {})
             \cup {[ok |-> FALSE, panic |-> FALSE, b |-> b]}
             \cup {[ok |-> TRUE, panic |-> FALSE,
                    b |-> [moved EXCEPT !.capacity = Min(new_capacity + slack, UsizeMax)]] :
                       slack \in 0 .. MaxSlack}

\* ReadBuffer::consume(count): `assert!(self.tail + count <= self.head)`,
\* then consume_unchecked. When `self.tail + count` overflows, a build with
\* overflow checks panics and one without tests the wrapped sum, and
\* `self.tail += count` wraps as well.
Consume(b, count) ==
    LET overflow == b.tail + count > UsizeMax
        tail == WrappingAdd(b.tail, count)
    IN  (IF overflow \/ tail > b.head THEN {[panic |-> TRUE, b |-> b]} ELSE {})
        \cup (IF tail <= b.head
              THEN {[panic |-> FALSE,
                     b |-> IF tail = b.head
                           THEN [b EXCEPT !.data = <<>>, !.tail = 0, !.head = 0]
                           ELSE [b EXCEPT !.tail = tail]]}
              ELSE {})

\* ReadBuffer::consume_unchecked(count).
ConsumeUnchecked(b, count) ==
    LET tail == b.tail + count
    IN  [ret |-> SubSeq(b.data, b.tail + 1, b.tail + count),
         b |-> IF tail = b.head
               THEN [b EXCEPT !.data = <<>>, !.tail = 0, !.head = 0]
               ELSE [b EXCEPT !.tail = tail]]

\* Fd::read into spare_capacity_mut(): the counts it can return with the
\* descriptor at pos. A buffer of size zero always gives 0; with no byte to
\* deliver yet a blocking read does not return (and a non-blocking one
\* gives WOULDBLOCK).
ReadCounts(b, pos) ==
    IF b.capacity - b.head = 0 THEN {0}
    ELSE 1 .. Min(b.capacity - b.head, Len(stream) - pos)

\* Fd::read of count bytes, then ReadBuffer::assume_init(count).
AssumeInit(b, pos, count) ==
    [b EXCEPT !.data = SubSeq(b.data, 1, b.head) \o SubSeq(stream, pos + 1, pos + count),
              !.head = b.head + count]

\* A call from buffer b with the descriptor at pos: the locals of the loop
\* (of ReadUntil::new, ReadExact::new), nothing returned yet.
NewRun(b, pos) ==
    [buf |-> b, pos |-> pos, batch_size |-> BATCH_SIZE, checked |-> 0, state |-> "run",
     ret |-> <<>>]

\* Ok(consume_unchecked(count)).
Returns(r, count) ==
    LET c == ConsumeUnchecked(r.buf, count)
    IN  [r EXCEPT !.state = "done", !.ret = c.ret, !.buf = c.b]

\* The `?` after reserve, and the read that follows it when reserve is Ok.
ReserveAndRead(r, count, batch_size) ==
    UNION {IF ~rs.ok THEN {[r EXCEPT !.state = IF rs.panic THEN "panic" ELSE "err"]}
           ELSE {[r EXCEPT !.buf = AssumeInit(rs.b, r.pos, n), !.pos = r.pos + n,
                           !.batch_size = batch_size, !.state = "run"] : n \in ReadCounts(rs.b, r.pos)} :
              rs \in Reserve(r.buf, count)}

\* poll_read gives WOULDBLOCK and registers the interest: Poll::Pending,
\* with the buffer as reserve left it.
WouldBlock(r, count) ==
    {[r EXCEPT !.buf = rs.b, !.state = "pending"] :
        rs \in {x \in Reserve(r.buf, count) : x.ok /\ x.b.capacity - x.b.head > 0}}

\* ReadBuffer::read_until: one turn of its loop (and the test before it).
ReadUntilLoop(r, delimiter) ==
    IF delimiter = <<>> THEN {[r EXCEPT !.state = "done", !.ret = <<>>]}
    ELSE LET m == Memchr(BufPending(r.buf), delimiter[1])
         IN  IF m.some /\ StartsWith(From(BufPending(r.buf), m.index), delimiter)
             THEN {Returns(r, m.index + Len(delimiter))}
             ELSE ReserveAndRead(r, r.batch_size, r.batch_size * 2)

\* ReadBuffer::read_exact: one turn of its loop.
ReadExactLoop(r, count) ==
    IF Len(BufPending(r.buf)) >= count
    THEN {Returns(r, count)}
    ELSE ReserveAndRead(r, SatSub(count, Len(BufPending(r.buf))), r.batch_size)

\* ReadUntil::poll: one turn of its loop (and the test before it). A poll
\* after Pending enters the loop again with the future's fields as they are.
ReadUntilPoll(r, delimiter) ==
    IF delimiter = <<>> THEN {[r EXCEPT !.state = "done", !.ret = <<>>]}
    ELSE LET m == Memchr(From(BufPending(r.buf), r.checked), delimiter[1])
             index == m.index + r.checked
         IN  IF m.some /\ StartsWith(From(BufPending(r.buf), index), delimiter)
             THEN {Returns(r, index + Len(delimiter))}
             ELSE LET c == [r EXCEPT !.checked = Len(BufPending(r.buf))]
                  IN  ReserveAndRead(c, c.batch_size, c.batch_size * 2)
                        \cup WouldBlock(c, c.batch_size)

\* ReadExact::poll: one turn of its loop.
ReadExactPoll(r, count) ==
    IF Len(BufPending(r.buf)) > count
    THEN {Returns(r, count)}
    ELSE ReserveAndRead(r, SatSub(count, Len(BufPending(r.buf))), r.batch_size)
           \cup WouldBlock(r, SatSub(count, Len(BufPending(r.buf))))

\* The program prepares the buffer: reserve(count).
BufReserve(count) ==
    /\ rd.phase = "idle"
    /\ \E rs \in Reserve(readbuf, count) : readbuf' = rs.b
    /\ UNCHANGED <<stream, fd_pos, rd>>
    /\ UNCHANGED runtimeVars
    /\ UNCHANGED mutexVars
    /\ UNCHANGED onceVars
    /\ UNCHANGED <<tty, sock>>

\* The program prepares the buffer: fill_with_fd.
BufFillWithFd ==
    /\ rd.phase = "idle"
    /\ \E n \in ReadCounts(readbuf, fd_pos) :
          /\ readbuf' = AssumeInit(readbuf, fd_pos, n)
          /\ fd_pos' = fd_pos + n
    /\ UNCHANGED <<stream, rd>>
    /\ UNCHANGED runtimeVars
    /\ UNCHANGED mutexVars
    /\ UNCHANGED onceVars
    /\ UNCHANGED <<tty, sock>>

\* The program prepares the buffer: consume(count), which asserts that so
\* many bytes are pending.
BufConsume(count) ==
    /\ rd.phase = "idle"
    /\ readbuf.tail + count <= readbuf.head
    /\ readbuf' = ConsumeUnchecked(readbuf, count).b
    /\ UNCHANGED <<stream, fd_pos, rd>>
    /\ UNCHANGED runtimeVars
    /\ UNCHANGED mutexVars
    /\ UNCHANGED onceVars
    /\ UNCHANGED <<tty, sock>>

\* read_until(fd, delimiter) is called, and async_read_until(fd, delimiter)
\* from the same state.
CallReadUntil(delimiter) ==
    /\ rd.phase = "idle"
    /\ rd' = [phase |-> "call", op |-> "read_until", delimiter |-> delimiter, count |-> 0,
              sync |-> NewRun(readbuf, fd_pos), async |-> NewRun(readbuf, fd_pos)]
    /\ UNCHANGED <<stream, fd_pos, readbuf>>
    /\ UNCHANGED runtimeVars
    /\ UNCHANGED mutexVars
    /\ UNCHANGED onceVars
    /\ UNCHANGED <<tty, sock>>

\* read_exact(fd, count) is called, and async_read_exact(fd, count) from
\* the same state.
CallReadExact(count) ==
    /\ rd.phase = "idle"
    /\ rd' = [phase |-> "call", op |-> "read_exact", delimiter |-> <<>>, count |-> count,
              sync |-> NewRun(readbuf, fd_pos), async |-> NewRun(readbuf, fd_pos)]
    /\ UNCHANGED <<stream, fd_pos, readbuf>>
    /\ UNCHANGED runtimeVars
    /\ UNCHANGED mutexVars
    /\ UNCHANGED onceVars
    /\ UNCHANGED <<tty, sock>>

\* The blocking call goes through one turn of its loop.
SyncTurn ==
    /\ rd.phase = "call"
    /\ rd.sync.state = "run"
    /\ \E r \in (IF rd.op = "read_until" THEN ReadUntilLoop(rd.sync, rd.delimiter)
                  ELSE ReadExactLoop(rd.sync, rd.count)) :
          rd' = [rd EXCEPT !.sync = r]
    /\ UNCHANGED <<stream, fd_pos, readbuf>>
    /\ UNCHANGED runtimeVars
    /\ UNCHANGED mutexVars
    /\ UNCHANGED onceVars
    /\ UNCHANGED <<tty, sock>>

\* Of a run that is over, what it returned; "blocked" when it did not.
Returned1(r) == [state |-> IF r.state = "run" THEN "blocked" ELSE r.state, ret |-> r.ret]

\* The blocking call has returned, or waits in a read for bytes that do not
\* come.
SyncOver ==
    IF rd.sync.state # "run" THEN TRUE
    ELSE (IF rd.op = "read_until" THEN ReadUntilLoop(rd.sync, rd.delimiter)
          ELSE ReadExactLoop(rd.sync, rd.count)) = {}

\* The future is polled, or polled again after Pending, and goes through
\* one turn of its loop. The two calls are two runs of the program from one
\* state; the model takes the blocking one first.
AsyncTurn ==
    /\ rd.phase = "call"
    /\ SyncOver
    /\ rd.async.state \in {"run", "pending"}
    /\ \E r \in (IF rd.op = "read_until" THEN ReadUntilPoll(rd.async, rd.delimiter)
                  ELSE ReadExactPoll(rd.async, rd.count)) :
          rd' = [rd EXCEPT !.async = r, !.sync = Returned1(rd.sync)]
    /\ UNCHANGED <<stream, fd_pos, readbuf>>
    /\ UNCHANGED runtimeVars
    /\ UNCHANGED mutexVars
    /\ UNCHANGED onceVars
    /\ UNCHANGED <<tty, sock>>

\* The streams a descriptor delivers.
Streams == SeqsUpTo(Bytes, MaxStream)

\* A fresh buffer and a descriptor with some stream to deliver.
InitRead ==
    /\ RuntimeNew(FALSE)
    /\ MutexNew
    /\ OnceNew
    /\ ReadBufferNew
    /\ stream \in Streams
    /\ TtyNew
    /\ SockNew

\* A program that prepares a buffer and then reads from it until a
\* delimiter, or an exact count, by the method and by the future.
NextRead ==
    \/ \E count \in 1 .. MaxStream : BufReserve(count)
    \/ BufFillWithFd
    \/ \E count \in 1 .. MaxStream : BufConsume(count)
    \/ \E delimiter \in SeqsUpTo(Bytes, MaxDelim) : CallReadUntil(delimiter)
    \/ \E count \in 0 .. MaxStream : CallReadExact(count)
    \/ SyncTurn
    \/ AsyncTurn

SpecRead == InitRead /\ [][NextRead]_vars

\* The counts a program passes to reserve and consume: small ones, and
\* the largest.
BufCounts == (0 .. MaxStream) \cup {UsizeMax - 1, UsizeMax}

\* The program calls reserve(count) (`rd` keeps the call and its result).
OpReserve(count) ==
    /\ rd.phase = "idle"
    /\ \E rs \in Reserve(readbuf, count) :
          /\ readbuf' = rs.b
          /\ rd' = [phase |-> IF rs.panic THEN "panicked" ELSE "idle", op |-> "reserve",
                    count |-> count, ok |-> rs.ok]
    /\ UNCHANGED <<stream, fd_pos>>
    /\ UNCHANGED runtimeVars
    /\ UNCHANGED mutexVars
    /\ UNCHANGED onceVars
    /\ UNCHANGED <<tty, sock>>

\* The program calls fill_with_fd: a read into the spare capacity, then
\* assume_init of what was read.
OpFillWithFd ==
    /\ rd.phase = "idle"
    /\ \E n \in ReadCounts(readbuf, fd_pos) :
          /\ readbuf' = AssumeInit(readbuf, fd_pos, n)
          /\ fd_pos' = fd_pos + n
          /\ rd' = [phase |-> "idle", op |-> "fill_with_fd", count |-> n, ok |-> TRUE]
    /\ UNCHANGED stream
    /\ UNCHANGED runtimeVars
    /\ UNCHANGED mutexVars
    /\ UNCHANGED onceVars
    /\ UNCHANGED <<tty, sock>>

\* The program calls consume(count).
OpConsume(count) ==
    /\ rd.phase = "idle"
    /\ \E c \in Consume(readbuf, count) :
          /\ readbuf' = c.b
          /\ rd' = [phase |-> IF c.panic THEN "panicked" ELSE "idle", op |-> "consume",
                    count |-> count, ok |-> ~c.panic]
    /\ UNCHANGED <<stream, fd_pos>>
    /\ UNCHANGED runtimeVars
    /\ UNCHANGED mutexVars
    /\ UNCHANGED onceVars
    /\ UNCHANGED <<tty, sock>>

\* A program that uses the buffer directly, under every build.
NextBuffer ==
    \/ \E count \in BufCounts : OpReserve(count)
    \/ OpFillWithFd
    \/ \E count \in BufCounts : OpConsume(count)

SpecBuffer == InitRead /\ [][NextBuffer]_vars

\* ------------------------------------------------------------- terminal
\* The bytes the terminal delivers: the special characters of the termios
\* state, the bytes the loop matches (b'\t', b'\n', b'\x05', b'\x1B' as
\* "tab", "nl", "enq", "esc"), "x" for another ASCII byte, and the
\* two bytes of a character that takes two ("lead", "cont").
TtyBytes == {"eof", "intr", "erase", "quit", "kill", "werase", "tab", "nl", "enq", "esc",
             "[", "A", "B", "C", "D", "x", "lead", "cont"}

\* What the callback can return: Flow::Continue, Flow::Break(r).
Flows == {[kind |-> "Continue", r |-> 0]} \cup {[kind |-> "Break", r |-> r] : r \in 1 .. MaxCount}

\* core::str::from_utf8(&utf8_buf) is Ok.
FromUtf8Ok(buf) ==
    \/ Len(buf) = 1 /\ buf[1] \notin {"lead", "cont"}
    \/ buf = <<"lead", "cont">>

\* The arm of `match byte` in State::Initial: the event the callback is
\* invoked with ("none": it is not invoked).
InitialEvent(byte, buf) ==
    CASE byte = "eof" -> "EndOfFile"
      [] byte = "intr" -> "Interrupt"
      [] byte = "erase" -> "Erase"
      [] byte = "quit" -> "Quit"
      [] byte = "kill" -> "EraseLine"
      [] byte = "werase" -> "EraseWord"
      [] byte = "tab" -> "Tab"
      [] byte = "nl" -> "Enter"
      [] byte = "enq" -> "Enquiry"
      [] byte = "esc" -> "none"
      [] OTHER -> IF FromUtf8Ok(Append(buf, byte)) THEN "Character" ELSE "none"

\* The arm of `match byte` in State::LeftBracket.
LeftBracketEvent(byte) ==
    CASE byte = "A" -> "Up"
      [] byte = "B" -> "Down"
      [] byte = "C" -> "Right"
      [] byte = "D" -> "Left"
      [] OTHER -> "none"

\* read_non_canonical is called: Termios::get, the restore guard and
\* Termios::set, each of which can fail.
ReadNonCanonical(ok) ==
    /\ tty.at \in {"out", "returned", "err"}
    /\ tty' = [at |-> IF ok THEN "loop" ELSE "err", state |-> "Initial", utf8_buf |-> <<>>,
               canonical |-> ~ok, ret |-> 0, called |-> FALSE, event |-> "none",
               flow |-> [kind |-> "Continue", r |-> 0]]
    /\ UNCHANGED runtimeVars
    /\ UNCHANGED mutexVars
    /\ UNCHANGED onceVars
    /\ UNCHANGED readVars
    /\ UNCHANGED sock

\* One turn of the loop: read_one gives `byte` (Ok(None) gives chars.eof()),
\* and the callback, where it is invoked, returns `flow`.
TtyTurn(byte, flow) ==
    /\ tty.at = "loop"
    /\ tty' =
         CASE tty.state = "Initial" ->
                LET event == InitialEvent(byte, tty.utf8_buf)
                    f == IF event = "none" THEN [kind |-> "Continue", r |-> 0] ELSE flow
                    pushed == byte \notin {"eof", "intr", "erase", "quit", "kill", "werase",
                                           "tab", "nl", "enq", "esc"}
                IN  IF pushed /\ Len(tty.utf8_buf) = 4
                    THEN [tty EXCEPT !.at = "panicked", !.called = FALSE, !.event = "none",
                                     !.flow = f]
                    ELSE [tty EXCEPT
                            !.state = IF byte = "esc" THEN "Escaped" ELSE "Initial",
                            !.utf8_buf = IF ~pushed THEN @
                                         ELSE IF event = "Character" THEN <<>>
                                         ELSE Append(@, byte),
                            !.called = event # "none", !.event = event, !.flow = f,
                            !.at = IF f.kind = "Break" THEN "returned" ELSE "loop",
                            !.ret = f.r,
                            !.canonical = f.kind = "Break"]
           [] tty.state = "Escaped" ->
                [tty EXCEPT !.state = IF byte = "[" THEN "LeftBracket" ELSE "Initial",
                            !.called = FALSE, !.event = "none",
                            !.flow = [kind |-> "Continue", r |-> 0]]
           [] tty.state = "LeftBracket" ->
                LET event == LeftBracketEvent(byte)
                IN  [tty EXCEPT !.state = "Initial",
                                !.called = event # "none", !.event = event,
                                !.flow = IF event = "none"
                                         THEN [kind |-> "Continue", r |-> 0] ELSE flow]
    /\ UNCHANGED runtimeVars
    /\ UNCHANGED mutexVars
    /\ UNCHANGED onceVars
    /\ UNCHANGED readVars
    /\ UNCHANGED sock

\* read_one fails: return Err(e), and the guard restores the terminal.
TtyReadErr ==
    /\ tty.at = "loop"
    /\ tty' = [tty EXCEPT !.at = "err", !.canonical = TRUE, !.called = FALSE,
                          !.event = "none", !.flow = [kind |-> "Continue", r |-> 0]]
    /\ UNCHANGED runtimeVars
    /\ UNCHANGED mutexVars
    /\ UNCHANGED onceVars
    /\ UNCHANGED readVars
    /\ UNCHANGED sock

\* A program that reads the terminal in non-canonical mode, under every
\* input and every callback.
NextTty ==
    \/ \E ok \in BOOLEAN : ReadNonCanonical(ok)
    \/ \E byte \in TtyBytes, flow \in Flows : TtyTurn(byte, flow)
    \/ TtyReadErr

SpecTty == Init /\ [][NextTty]_vars

\* ------------------------------------------------------------- socket address
\* The bytes of the addresses formatted (those of the tests) and the ports.
Octets == {0, 1}
MaxPort == 1
Ports == 0 .. MaxPort

\* What `{n}` writes for an unsigned integer: its decimal digits.
DigitChars == <<"0", "1", "2", "3", "4", "5", "6", "7", "8", "9">>

RECURSIVE Decimal(_)
Decimal(n) ==
    IF n < 10 THEN <<DigitChars[n + 1]>>
    ELSE Decimal(n \div 10) \o <<DigitChars[(n % 10) + 1]>>

\* core::array::from_fn(|i| u16::from_be_bytes([ip[i * 2], ip[i * 2 + 1]]))
Groups(ip) == [i \in 1 .. 8 |-> (ip[2 * i - 1] * 256) + ip[2 * i]]

\* `while i < 8 && ip[i] == 0 { i += 1; }` (indices from 0, as in the code).
RECURSIVE RunEnd(_, _)
RunEnd(ip, i) == IF i < 8 /\ ip[i + 1] = 0 THEN RunEnd(ip, i + 1) ELSE i

\* A comparison that would also replace `best` by a later run as long.
AsLongAs(count, best) == count >= best.end - best.start

\* `i - current_start > best.len()`
LongerThan(count, best) == count > best.end - best.start

\* The outer loop that looks for the longest sequence of zeros.
RECURSIVE LongestZeros(_, _, _)
LongestZeros(ip, i, best) ==
    IF i >= 8 THEN best
    ELSE IF ip[i + 1] = 0
         THEN LET end == RunEnd(ip, i)
              IN  LongestZeros(ip, end + 1,
                               IF LongerThan(end - i, best)
                               THEN [start |-> i, end |-> end] ELSE best)
         ELSE LongestZeros(ip, i + 1, best)

\* `for n in groups { write!(f, "{pre}{n}{post}") }`
RECURSIVE WriteEach(_, _, _)
WriteEach(groups, pre, post) ==
    IF groups = <<>> THEN <<>>
    ELSE pre \o Decimal(Head(groups)) \o post \o WriteEach(Tail(groups), pre, post)

\* format_ipv6: the characters written to the formatter.
FormatIpv6(bytes, port) ==
    LET ip == Groups(bytes)
        best == LongestZeros(ip, 0, [start |-> 0, end |-> 0])
    IN  <<"[">>
        \o (IF best.start = best.end
            THEN WriteEach(SubSeq(ip, 1, 7), <<>>, <<":">>) \o Decimal(ip[8])
            ELSE (IF best.start = 0 THEN <<":">> ELSE <<>>)
                 \o WriteEach(SubSeq(ip, 1, best.start), <<>>, <<":">>)
                 \o WriteEach(SubSeq(ip, best.end + 1, 8), <<":">>, <<>>)
                 \o (IF best.end = 8 THEN <<":">> ELSE <<>>))
        \o <<"]", ":">> \o Decimal(port)

\* <SocketAddr as Display>::fmt on a V6 address.
DisplayV6 ==
    /\ ~sock.shown
    /\ sock' = [sock EXCEPT !.text = FormatIpv6(sock.ip, sock.port), !.shown = TRUE]
    /\ UNCHANGED runtimeVars
    /\ UNCHANGED mutexVars
    /\ UNCHANGED onceVars
    /\ UNCHANGED readVars
    /\ UNCHANGED tty

\* Every V6 address over Octets, with every port.
InitAddr ==
    /\ RuntimeNew(FALSE)
    /\ MutexNew
    /\ OnceNew
    /\ ReadBufferNew
    /\ stream = <<>>
    /\ TtyNew
    /\ sock \in {[ip |-> ip, port |-> port, text |-> <<>>, shown |-> FALSE] :
                    ip \in [1 .. 16 -> Octets], port \in Ports}

NextAddr == DisplayV6

SpecAddr == InitAddr /\ [][NextAddr]_vars

\* The maximal runs of zero groups of g, as <<s, e>>: groups s+1 .. e.
ZeroRuns(g) ==
    {r \in (0 .. 7) \X (1 .. 8) :
        /\ r[1] < r[2]
        /\ \A i \in (r[1] + 1) .. r[2] : g[i] = 0
        /\ r[1] = 0 \/ g[r[1]] # 0
        /\ r[2] = 8 \/ g[r[2] + 1] # 0}

\* The first of the longest runs.
FirstLongest(g) ==
    CHOOSE r \in ZeroRuns(g) :
        \A q \in ZeroRuns(g) :
            \/ q[2] - q[1] < r[2] - r[1]
            \/ q[2] - q[1] = r[2] - r[1] /\ q[1] >= r[1]

\* The groups in decimal, separated by ':'.
RECURSIVE Joined(_)
Joined(groups) ==
    IF groups = <<>> THEN <<>>
    ELSE IF Len(groups) = 1 THEN Decimal(groups[1])
    ELSE Decimal(Head(groups)) \o <<":">> \o Joined(Tail(groups))

\* The text the address g with its port is described to have.
Shown(g, port) ==
    <<"[">>
    \o (IF ZeroRuns(g) = {} THEN Joined(g)
        ELSE LET r == FirstLongest(g)
             IN  Joined(SubSeq(g, 1, r[1])) \o <<":", ":">> \o Joined(SubSeq(g, r[2] + 1, 8)))
    \o <<"]", ":">> \o Decimal(port)

\* ------------------------------------------------------------- once cell
\* OnceCell::is_initialized: the Acquire load.
IsInitialized(c) == c.initialized

\* OnceCell::set(value), up to its test: Err(value) when is_initialized(),
\* and otherwise on to set_unchecked. Thread t brings the value t.
OnceSet(t) ==
    /\ callers[t].at = "out"
    /\ callers' = [callers EXCEPT ![t] =
                      IF IsInitialized(once_cell)
                      THEN [@ EXCEPT !.call = "set", !.ret = "err", !.got = callers[t].value]
                      ELSE [@ EXCEPT !.call = "set", !.at = "write", !.ret = "none", !.got = 0]]
    /\ UNCHANGED <<once_cell, once_hist>>
    /\ UNCHANGED runtimeVars
    /\ UNCHANGED mutexVars
    /\ UNCHANGED readVars
    /\ UNCHANGED <<tty, sock>>

\* OnceCell::get_or_init_with(f), up to its test: on to set_unchecked(f())
\* when the cell is not initialized, and to get_unchecked when it is.
OnceGetOrInitWith(t) ==
    /\ callers[t].at = "out"
    /\ callers' = [callers EXCEPT ![t] =
                      [@ EXCEPT !.call = "get_or_init_with",
                                !.at = IF IsInitialized(once_cell) THEN "read" ELSE "write",
                                !.ret = "none", !.got = 0]]
    /\ UNCHANGED <<once_cell, once_hist>>
    /\ UNCHANGED runtimeVars
    /\ UNCHANGED mutexVars
    /\ UNCHANGED readVars
    /\ UNCHANGED <<tty, sock>>

\* OnceCell::set_unchecked: (*self.value.get()).write(value).
SetUncheckedWrite(t) ==
    /\ callers[t].at = "write"
    /\ once_cell' = [once_cell EXCEPT !.value = callers[t].value]
    /\ once_hist' = [once_hist EXCEPT !.overwritten = @ \/ IsInitialized(once_cell)]
    /\ callers' = [callers EXCEPT ![t].at = "store"]
    /\ UNCHANGED runtimeVars
    /\ UNCHANGED mutexVars
    /\ UNCHANGED readVars
    /\ UNCHANGED <<tty, sock>>

\* OnceCell::set_unchecked: initialized.store(true, Release); set then
\* returns Ok(()), and get_or_init_with goes on to get_unchecked.
SetUncheckedStore(t) ==
    /\ callers[t].at = "store"
    /\ once_cell' = [once_cell EXCEPT !.initialized = TRUE]
    /\ IF callers[t].call = "set"
       THEN /\ callers' = [callers EXCEPT ![t].at = "out", ![t].ret = "ok"]
            /\ once_hist' = [once_hist EXCEPT !.oks = Sat(@)]
       ELSE /\ callers' = [callers EXCEPT ![t].at = "read"]
            /\ UNCHANGED once_hist
    /\ UNCHANGED runtimeVars
    /\ UNCHANGED mutexVars
    /\ UNCHANGED readVars
    /\ UNCHANGED <<tty, sock>>

\* OnceCell::get_unchecked, at the end of get_or_init_with.
GetUnchecked(t) ==
    /\ callers[t].at = "read"
    /\ callers' = [callers EXCEPT ![t].at = "out", ![t].ret = "ref",
                                  ![t].got = once_cell.value]
    /\ UNCHANGED <<once_cell, once_hist>>
    /\ UNCHANGED runtimeVars
    /\ UNCHANGED mutexVars
    /\ UNCHANGED readVars
    /\ UNCHANGED <<tty, sock>>

\* Threads that share one OnceCell and call set and get_or_init_with on it,
\* in any interleaving.
NextOnce ==
    \/ \E t \in Threads : OnceSet(t)
    \/ \E t \in Threads : OnceGetOrInitWith(t)
    \/ \E t \in Threads : SetUncheckedWrite(t)
    \/ \E t \in Threads : SetUncheckedStore(t)
    \/ \E t \in Threads : GetUnchecked(t)

SpecOnce == Init /\ [][NextOnce]_vars

\* ------------------------------------------------------------- properties
SlotIds == {id \in TaskIds : InBounds(Arena, id)}

StateOf(id) == tasks[id + 1].st

RECURSIVE Walk(_, _, _)
\* The ids met following `next` from `head`, at most `fuel` of them.
Walk(a, head, fuel) ==
    IF fuel = 0 \/ ~InBounds(a, head) THEN <<>>
    ELSE <<head>> \o Walk(a, a.tasks[head + 1].next, fuel - 1)

ReadyList(a) == Walk(a, a.ready_list_head, Len(a.tasks) + 1)

FreeList(a) == Walk(a, a.free_list_head, Len(a.tasks) + 1)

Occurrences(s, x) == Cardinality({k \in 1 .. Len(s) : s[k] = x})

\* C1: no spurious scheduling. A slot that is Ready and holds a task that has
\* already been resumed got there by a wake handle invoked while it was
\* Waiting, after its last resume.
C1_NoSpuriousScheduling ==
    \A id \in SlotIds :
        (StateOf(id) = "Ready" /\ tasks[id + 1].task.step >= 1) => hist.wokenSince[id]

C1_Witness ==
    \E id \in SlotIds :
        StateOf(id) = "Ready" /\ tasks[id + 1].task.step >= 1 /\ hist.wokenSince[id]

\* C2: Tasks::len() is the number of successful inserts minus the number of
\* completions, and the number of slots that are not Vacant.
C2_LenIsLiveCount ==
    /\ len = hist.live
    /\ len = Cardinality({id \in SlotIds : StateOf(id) # "Vacant"})

C2_Witness ==
    /\ len = 1
    /\ \E id \in SlotIds : StateOf(id) = "Vacant"
    /\ \E id \in SlotIds : StateOf(id) = "Waiting"

\* C3: insert grows the backing store only when no slot is Vacant, and then
\* by one slot; with a Vacant slot it reuses one. The number of slots never
\* exceeds the largest number of tasks that were live at once.
C3_GrowsOnlyWhenFull ==
    [][LET vacant == \E id \in SlotIds : StateOf(id) = "Vacant" IN
       /\ vacant => Len(tasks') = Len(tasks)
       /\ Len(tasks') \in {Len(tasks), Len(tasks) + 1}
       /\ (last'.op = "insert" /\ last'.ok /\ vacant) =>
              (StateOf(last'.id) = "Vacant" /\ tasks'[last'.id + 1].st = "Ready")
       /\ (last'.op = "insert" /\ last'.ok /\ ~vacant) => Len(tasks') = Len(tasks) + 1
       /\ Len(tasks') <= hist'.maxLive]_vars

C3_Witness ==
    /\ last.op = "insert"
    /\ last.ok
    /\ Len(tasks) = 2
    /\ hist.maxLive = 2
    /\ len = 1

\* C4: mark_ready on an id that does not exist or whose slot is not Waiting
\* returns false and changes nothing in the arena; after any number of
\* invocations of a handle the task is in the Ready list exactly once.
C4_MarkReadyNoOp ==
    [][\A id \in TaskIds :
        (last'.op = "mark_ready" /\ last'.id = id) =>
            /\ ~(id \in SlotIds /\ StateOf(id) = "Waiting") =>
                   (~last'.ok /\ UNCHANGED arenaVars)
            /\ (InBounds(Arena', id) /\ tasks'[id + 1].st = "Ready") =>
                   Occurrences(ReadyList(Arena'), id) = 1]_vars

C4_Witness ==
    /\ last.op = "mark_ready"
    /\ ~last.ok
    /\ last.id \in SlotIds
    /\ StateOf(last.id) = "Ready"
    /\ hist.wokenSince[last.id]

\* C5: mark_ready returns true iff the slot exists and is Waiting; then the
\* slot becomes Ready with the same task, linked to the previous head of the
\* Ready list, and is the new head; len and every other slot are unchanged.
C5_MarkReadyEffect ==
    [][\A id \in TaskIds :
        (last'.op = "mark_ready" /\ last'.id = id) =>
            /\ last'.ok <=> (id \in SlotIds /\ StateOf(id) = "Waiting")
            /\ last'.ok =>
                /\ tasks'[id + 1] = Ready(tasks[id + 1].task, ready_list_head)
                /\ ready_list_head' = id
                /\ free_list_head' = free_list_head
                /\ len' = len
                /\ Len(tasks') = Len(tasks)
                /\ \A o \in SlotIds \ {id} : tasks'[o + 1] = tasks[o + 1]]_vars

C5_Witness ==
    /\ last.op = "mark_ready"
    /\ last.ok
    /\ StateOf(last.id) = "Ready"
    /\ tasks[last.id + 1].next # USIZE_MAX
    /\ ready_list_head = last.id

\* The entries of (i, w) that pair descriptor fd with a handle for task id.
Entries(i, w, fd, id) == Cardinality({k \in 1 .. Len(i) : i[k].fd = fd /\ w[k] = id})

\* C6: one wait_any call that observes the descriptors of fdReady' ready
\* removes exactly the entries of those descriptors from both arrays and
\* invokes each of their handles exactly once; the other entries stay and
\* are not woken; the arrays have equal length afterwards.
C6_ReadyEntriesRemovedAndWoken ==
    [][(last'.op = "wait_any" /\ last'.ok) =>
        /\ Len(io') = Len(io_wakers')
        /\ \A fd \in Fds, id \in TaskIds :
              Entries(io', io_wakers', fd, id)
                  = IF fd \in fdReady' THEN 0 ELSE Entries(io, io_wakers, fd, id)
        /\ \A id \in TaskIds :
              Occurrences(last'.woken, id)
                  = Cardinality({k \in 1 .. Len(io) : io[k].fd \in fdReady' /\ io_wakers[k] = id})
      ]_vars

C7_Witness ==
    /\ last.op = "wait_any"
    /\ last.ok
    /\ Len(sleepers) = 1
    /\ sleepers[1].instant > now
    /\ last.woken = <<>>

Returned == pc = "idle" /\ last.op = "run_until_idle"

\* The tasks spawned so far, in order, were futures of these kinds.
SpawnedKinds(kinds) ==
    /\ Len(hist.spawned) = Len(kinds)
    /\ \A k \in 1 .. Len(kinds) : hist.spawned[k].kind = kinds[k]

\* C8 as stated: with task B alone, the first run_until_idle call resumes it
\* twice and returns 0.
C8_Original ==
    (Returned /\ SpawnedKinds(<<"timer">>) /\ hist.runs = 1) =>
        (last.ret = 0 /\ hist.polls = 2)

\* C8 as amended: with task B alone, the first run_until_idle call does not
\* wait, resumes B once and returns 1, B Waiting and its timer registered. A
\* later call waits once; it returns 0 with B resumed a second time and
\* finished when that wait or an earlier one found the timer due, and
\* otherwise returns 1 with B still Waiting and the timer not yet due.
C8_ScenarioB ==
    (Returned /\ SpawnedKinds(<<"timer">>)) =>
        /\ hist.runs = 1 =>
            /\ last.ret = 1
            /\ hist.waits = 0
            /\ hist.polls = 1
            /\ StateOf(0) = "Waiting"
            /\ tasks[1].task.step = 1
            /\ sleepers = <<[instant |-> now + TimerDelay, waker |-> 0]>>
        /\ (hist.runs > 1 /\ sleepers # <<>>) =>
            /\ last.ret = 1
            /\ hist.waits = 1
            /\ hist.polls = 0
            /\ StateOf(0) = "Waiting"
            /\ now < sleepers[1].instant
        /\ (hist.runs > 1 /\ sleepers = <<>>) =>
            /\ last.ret = 0
            /\ len = 0
            /\ StateOf(0) = "Vacant"
            /\ hist.polls = 1 => hist.waits = 1

\* The second call found the timer due, resumed B and returned 0.
C8_Witness ==
    /\ Returned
    /\ SpawnedKinds(<<"timer">>)
    /\ hist.runs = 2
    /\ hist.waits = 1
    /\ hist.polls = 1
    /\ last.ret = 0
    /\ StateOf(0) = "Vacant"

\* C9: from an empty runtime, with task A alone, run_until_idle returns 0,
\* the arena length is 0, A was resumed exactly once and its slot is Vacant.
C9_ScenarioA ==
    (Returned /\ SpawnedKinds(<<"done">>) /\ hist.runs = 1) =>
        /\ last.ret = 0
        /\ len = 0
        /\ hist.polls = 1
        /\ hist.waits = 0
        /\ Len(tasks) = 1
        /\ StateOf(0) = "Vacant"

C9_Witness ==
    /\ Returned
    /\ SpawnedKinds(<<"done">>)
    /\ hist.runs = 1
    /\ last.ret = 0
    /\ StateOf(0) = "Vacant"

\* Tasks C and D spawned, in either order, D on a descriptor that is ready.
SpawnedCD(kind) ==
    /\ SpawnedKinds(<<"done", kind>>) \/ SpawnedKinds(<<kind, "done">>)
    /\ \A k \in 1 .. Len(hist.spawned) :
          hist.spawned[k].kind = kind => hist.spawned[k].fd \in fdReady

\* C10 as stated: with C and D, D registering interest in a descriptor that
\* is ready, the first run_until_idle call completes both.
C10_Original ==
    (Returned /\ SpawnedCD("io") /\ hist.runs = 1) =>
        (last.ret = 0 /\ len = 0 /\ hist.waits <= 1)

\* C10 as amended: with C and D, the first run_until_idle call makes no
\* wait_any call and resumes each task once. When D registers interest in the
\* ready descriptor it reports not-done: C completes, D stays Waiting with its
\* interest registered and the call returns 1. When D reads the ready
\* descriptor through Fd::poll_read it registers nothing and both complete:
\* the call returns 0.
C10_ScenarioCD ==
    /\ (Returned /\ SpawnedCD("io") /\ hist.runs = 1) =>
        /\ last.ret = 1
        /\ len = 1
        /\ hist.waits = 0
        /\ hist.polls = 2
        /\ Len(io) = 1
        /\ Len(io_wakers) = 1
        /\ StateOf(io_wakers[1]) = "Waiting"
        /\ tasks[io_wakers[1] + 1].task.kind = "io"
        /\ \A id \in SlotIds \ {io_wakers[1]} : StateOf(id) = "Vacant"
    /\ (Returned /\ SpawnedCD("read") /\ hist.runs = 1) =>
        /\ last.ret = 0
        /\ len = 0
        /\ hist.waits = 0
        /\ hist.polls = 2
        /\ io = <<>>
        /\ \A id \in SlotIds : StateOf(id) = "Vacant"

C10_Witness ==
    /\ Returned
    /\ SpawnedCD("io")
    /\ hist.runs = 1
    /\ last.ret = 1
    /\ Len(io) = 1

C10_WitnessRead ==
    /\ Returned
    /\ SpawnedCD("read")
    /\ hist.runs = 1
    /\ last.ret = 0

\* C11: the Ready list is LIFO. The Ready list, from its head, is the tasks
\* that are Ready in the reverse of the order in which they became Ready (by
\* insert or by mark_ready), and the task that take_any_ready_task hands to
\* the driver is the one that became Ready last.
C11_ReadyListLifo ==
    [][/\ ReadyList(Arena) = hist.readyOrder
       /\ (pc = "loop" /\ pc' = "poll") =>
             /\ hist.readyOrder # <<>>
             /\ cur'.id = Head(hist.readyOrder)
             /\ hist'.readyOrder = Tail(hist.readyOrder)
             /\ ReadyList(Arena') = Tail(hist.readyOrder)]_vars

\* Of two tasks Ready, the task of slot 0, which became Ready after the task
\* of slot 1 was spawned, has been taken; the other is still Ready, never
\* resumed.
C11_Witness ==
    /\ pc = "poll"
    /\ cur.id = 0
    /\ hist.readyOrder = <<1>>
    /\ tasks[2].task.step = 0

\* C12: a run_until_idle call invokes wait_any exactly once when the reactor
\* is non-empty at entry and not at all when it is empty; between the resumes
\* of its loop no wait_any call is made, whatever the tasks register: no
\* interest and no timer leaves the reactor during the loop.
C12_OneGatedWait ==
    [][/\ ((pc = "idle" /\ pc' = "loop") \/ last'.op = "wait_any") =>
             /\ pc = "idle"
             /\ IF Len(io) = 0 /\ Len(sleepers) = 0
                THEN /\ last'.op # "wait_any"
                     /\ hist'.waits = 0
                     /\ UNCHANGED <<io, io_wakers, sleepers, now>>
                ELSE /\ last'.op = "wait_any"
                     /\ hist'.waits = 1
       /\ pc # "idle" =>
             /\ last'.op # "wait_any"
             /\ hist'.waits = hist.waits
             /\ Len(io') >= Len(io)
             /\ Len(sleepers') >= Len(sleepers)
             /\ now' = now]_vars

\* A call that waited once at entry and resumed a task has returned, a task
\* still pending and the reactor not empty.
C12_Witness ==
    /\ Returned
    /\ hist.waits = 1
    /\ hist.polls >= 1
    /\ Len(io) + Len(sleepers) >= 1
    /\ last.ret >= 1

\* C13: run_until_idle enters a blocking OS-level wait (a poll whose timeout
\* is not zero) only when no task is Ready at the time of the call.
C13_BlocksOnlyWhenNoneReady ==
    [][(last'.op = "wait_any" /\ PollTimeoutMs(WaitTimeout(sleepers, now)) # 0) =>
          ~InBounds(Arena, ready_list_head)]_vars

\* C14: when run_until_idle returns Ok(n) the Ready list is empty, no slot is
\* Ready or Running, and n is Tasks::len(), the number of Waiting slots: the
\* tasks spawned or woken during the pass were resumed within the call.
C14_IdleOnReturn ==
    Returned =>
        /\ ~InBounds(Arena, ready_list_head)
        /\ \A id \in SlotIds : StateOf(id) \in {"Waiting", "Vacant"}
        /\ last.ret = len
        /\ len = Cardinality({id \in SlotIds : StateOf(id) = "Waiting"})

\* A call has returned 1: of two slots one is Vacant, its task finished, the
\* other holds a task that was resumed and waits.
C14_Witness ==
    /\ Returned
    /\ last.ret = 1
    /\ Len(tasks) = 2
    /\ \E id \in SlotIds : StateOf(id) = "Vacant"
    /\ \E id \in SlotIds : StateOf(id) = "Waiting" /\ tasks[id + 1].task.step >= 1

\* The timers of s for task id at deadline `at`.
Timers(s, at, id) == Cardinality({k \in 1 .. Len(s) : s[k].instant = at /\ s[k].waker = id})

\* C15: in one wait_any call, with now' the time read after the OS wait,
\* every timer with deadline <= now' is popped and its handle invoked exactly
\* once, in non-decreasing deadline order, and every timer with deadline >
\* now' stays in the queue, its task not woken.
C15_DueTimersPopped ==
    [][(last'.op = "wait_any" /\ last'.ok /\ Len(io) = 0) =>
        LET due == {k \in 1 .. Len(sleepers) : sleepers[k].instant <= now'}
            n == Cardinality(due)
        IN  /\ \A at \in Deadlines, id \in TaskIds :
                  Timers(sleepers', at, id) = IF at <= now' THEN 0 ELSE Timers(sleepers, at, id)
            /\ Len(sleepers') = Len(sleepers) - n
            /\ last'.timers = n
            /\ Len(last'.woken) = n
            /\ \E f \in [1 .. n -> due] :
                  /\ \A i, j \in 1 .. n : i # j => f[i] # f[j]
                  /\ \A i \in 1 .. n : last'.woken[i] = sleepers[f[i]].waker
                  /\ \A i, j \in 1 .. n :
                        i < j => sleepers[f[i]].instant <= sleepers[f[j]].instant
            /\ \A id \in TaskIds :
                  (StateOf(id) = "Waiting" /\ \A k \in due : sleepers[k].waker # id)
                      => tasks'[id + 1] = tasks[id + 1]]_vars

\* Of two timers of different tasks the wait popped the one that was due and
\* woke its task; the other stays, its task Waiting.
C15_Witness ==
    /\ last.op = "wait_any"
    /\ last.ok
    /\ last.timers = 1
    /\ Len(sleepers) = 1
    /\ sleepers[1].instant > now
    /\ sleepers[1].waker # last.woken[1]
    /\ StateOf(last.woken[1]) = "Ready"
    /\ StateOf(sleepers[1].waker) = "Waiting"

\* The deadline of a soonest timer of s, computed apart from the heap.
Soonest(s) == CHOOSE at \in Deadlines :
                  /\ \E k \in 1 .. Len(s) : s[k].instant = at
                  /\ \A k \in 1 .. Len(s) : s[k].instant >= at

\* C16: the timeout a wait_any call passes to the OS wait is the soonest
\* deadline minus the current time, zero when that deadline has passed,
\* whenever a timer is outstanding, and the wait is unbounded only when no
\* timer is outstanding; for every deadline, less than a millisecond ahead
\* or very distant.
C16_TimeoutIsTimeLeft ==
    [][last'.op = "wait_any" =>
        LET ms == PollTimeoutMs(WaitTimeout(sleepers, now))
        IN  IF sleepers = <<>>
            THEN ms = -1
            ELSE /\ ms >= 0
                 /\ ms * TicksPerMs
                      = (IF Soonest(sleepers) > now THEN Soonest(sleepers) - now ELSE 0)]_vars

\* C17: on allocation failure Tasks::insert, wake_me_up_on_io and
\* wake_me_up_on_time return the error without panicking and leave their
\* state unchanged: the slots, both list heads and len for insert; the timer
\* queue and both I/O arrays, still of equal length, for a registration; and
\* the handle that is dropped wakes no task.
C17_OomLeavesStateUnchanged ==
    [][/\ Len(io') = Len(io_wakers')
       /\ (last'.op \in {"insert", "wake_me_up_on_io", "wake_me_up_on_time"} /\ ~last'.ok) =>
             /\ UNCHANGED <<tasks, free_list_head, ready_list_head, len>>
             /\ UNCHANGED <<io, io_wakers, sleepers>>
             /\ pc' = pc
             /\ pc' # "aborted"
             /\ cur' = cur]_vars

\* A registration of I/O interest has failed, with interest of both kinds
\* registered before it.
C17_Witness ==
    /\ last.op = "wake_me_up_on_io"
    /\ ~last.ok
    /\ Len(io) >= 1
    /\ Len(sleepers) >= 1
    /\ pc = "poll"

\* C18: when the OS-level wait fails, wait_any and run_until_idle return the
\* error to the caller, and in that call no timer is popped, no I/O interest
\* is removed, no handle is invoked and no task is resumed: the arena and
\* the reactor are unchanged.
C18_WaitErrorPropagates ==
    [][(last'.op = "wait_any" /\ ~last'.ok /\ pc' # "aborted") =>
          /\ pc = "idle"
          /\ pc' = "idle"
          /\ last'.woken = <<>>
          /\ last'.timers = 0
          /\ hist'.polls = 0
          /\ cur' = cur
          /\ UNCHANGED <<tasks, free_list_head, ready_list_head, len>>
          /\ UNCHANGED <<io, io_wakers, sleepers>>]_vars

\* The wait has failed with a timer due and an I/O interest registered: both
\* are still registered, their tasks Waiting.
C18_Witness ==
    /\ last.op = "wait_any"
    /\ ~last.ok
    /\ pc = "idle"
    /\ Len(sleepers) = 1
    /\ sleepers[1].instant <= now
    /\ Len(io) = 1
    /\ StateOf(sleepers[1].waker) = "Waiting"
    /\ StateOf(io_wakers[1]) = "Waiting"

C20_MutualExclusion ==
    /\ Cardinality({t \in Threads : threads[t].at = "guard"}) <= 1
    /\ \A t \in Threads : threads[t].at = "guard" => mutex_lock # "Unlocked"

\* C21: OnceCell is written at most once. In every interleaving of threads
\* that call set and get_or_init_with on one shared cell, at most one set
\* returns Ok, and the value is never written again once the cell is
\* initialized.
C21_WrittenAtMostOnce ==
    /\ once_hist.oks <= 1
    /\ ~once_hist.overwritten

\* C22: the Sleep future resolves once its instant is reached. A task that
\* awaits Sleep::new(at) and is resumed again, woken by its timer, with the
\* clock at or past `at`, completes at that resume: its poll returns Ready
\* and the task leaves the arena.
C22_SleepResolves ==
    [][(/\ Polling("sleep")
        /\ cur.task.step >= 2
        /\ now >= cur.task.instant
        /\ pc' = "loop")
          => (hist'.live = hist.live - 1 /\ tasks'[cur.id + 1].st = "Vacant")]_vars

\* C23: the asynchronous ReadExact is equivalent to the synchronous
\* read_exact. Whenever the future is polled with at least `count` bytes
\* pending (exactly `count` included), that poll completes, returns the
\* first `count` pending bytes and consumes them, performs no read, and
\* returns what read_exact returned from the same state.
C23_ReadExactAsSync ==
    [][(/\ rd.phase = "call"
        /\ rd.op = "read_exact"
        /\ rd'.async # rd.async
        /\ Len(BufPending(rd.async.buf)) >= rd.count)
          => /\ rd'.async.state = "done"
             /\ rd'.async.ret = SubSeq(BufPending(rd.async.buf), 1, rd.count)
             /\ BufPending(rd'.async.buf) = From(BufPending(rd.async.buf), rd.count)
             /\ rd'.async.pos = rd.async.pos
             /\ rd'.sync.state = "done" => rd'.sync.ret = rd'.async.ret]_vars

\* The delimiter d occurs in p.
Occurs(p, d) == \E i \in 0 .. Len(p) - Len(d) : SubSeq(p, i + 1, i + Len(d)) = d

\* Where d first occurs in p.
FirstOccurrence(p, d) ==
    CHOOSE i \in 0 .. Len(p) - Len(d) :
        /\ SubSeq(p, i + 1, i + Len(d)) = d
        /\ \A j \in 0 .. i - 1 : SubSeq(p, j + 1, j + Len(d)) # d

\* C24: read_until with a non-empty delimiter returns as soon as the pending
\* buffer contains the delimiter: it returns without reading from the
\* descriptor, the slice returned is the pending prefix up to and including
\* the first occurrence of the delimiter, and the bytes after it remain
\* pending.
C24_ReadUntilFindsPending ==
    [][(/\ rd.phase = "call"
        /\ rd.op = "read_until"
        /\ rd.delimiter # <<>>
        /\ rd.sync.state = "run"
        /\ rd'.sync # rd.sync
        /\ rd'.async = rd.async
        /\ Occurs(BufPending(rd.sync.buf), rd.delimiter))
          => LET p == BufPending(rd.sync.buf)
                 end == FirstOccurrence(p, rd.delimiter) + Len(rd.delimiter)
             IN  /\ rd'.sync.state = "done"
                 /\ rd'.sync.ret = SubSeq(p, 1, end)
                 /\ BufPending(rd'.sync.buf) = From(p, end)
                 /\ rd'.sync.pos = rd.sync.pos]_vars

\* C25: the asynchronous ReadUntil yields the same result as the synchronous
\* read_until on the same stream, however the stream is split into reads
\* and across Pending and resume: when both have returned, they have
\* returned the same slice.
C25_ReadUntilAsSync ==
    (/\ rd.phase = "call"
     /\ rd.op = "read_until"
     /\ rd.sync.state = "done"
     /\ rd.async.state = "done")
        => rd.async.ret = rd.sync.ret

\* C26: whenever the callback passed to read_non_canonical returns
\* Flow::Break(r), for any event, the arrow keys included, the call stops
\* reading and returns Ok(r): no further byte is read and the callback is
\* not invoked again.
C26_BreakStopsReading ==
    [][(tty.at = "loop" /\ tty'.called /\ tty'.flow.kind = "Break")
          => (tty'.at = "returned" /\ tty'.ret = tty'.flow.r)]_vars

\* C27: Display of SocketAddr::V6(ip, port) writes '[', the eight big-endian
\* 16-bit groups in decimal separated by ':', with the first longest run of
\* zero groups replaced by '::' and every other group (shorter zero runs
\* included) in order, then ']:' and the port; the all-zero address is
\* written '[::]:port', and an address with no zero group has all its eight
\* groups written.
C27_DisplayV6 ==
    sock.shown =>
        LET g == Groups(sock.ip)
        IN  /\ sock.text = Shown(g, sock.port)
            /\ (\A i \in 1 .. 8 : g[i] = 0)
                  => sock.text = <<"[", ":", ":", "]", ":">> \o Decimal(sock.port)
            /\ (\A i \in 1 .. 8 : g[i] # 0)
                  => sock.text = <<"[">> \o Joined(g) \o <<"]", ":">> \o Decimal(sock.port)

\* An address with two longest runs of zero groups, and a shorter one, shown.
C27_Witness ==
    /\ sock.shown
    /\ LET runs == ZeroRuns(Groups(sock.ip))
       IN  /\ \E r \in runs, q \in runs :
                 /\ r # q
                 /\ r[2] - r[1] = q[2] - q[1]
                 /\ \A p \in runs : p[2] - p[1] <= r[2] - r[1]
           /\ \E p \in runs, r \in runs : p[2] - p[1] < r[2] - r[1]
    /\ sock.text = Shown(Groups(sock.ip), sock.port)

\* The changes of state of the per-task state machine.
SlotMoves ==
    {<<"Vacant", "Ready">>, <<"Ready", "Running">>, <<"Running", "Waiting">>,
     <<"Running", "Vacant">>, <<"Waiting", "Ready">>}

\* A step that only moves slots along the state machine, each move made by
\* its operation: insert fills a Vacant slot or pushes a Ready one,
\* take_any_ready_task runs a Ready one, put_back_waiting and
\* put_back_nothing put the Running one back, mark_ready readies a Waiting
\* one.
MovesBySlot ==
    /\ Len(tasks') >= Len(tasks)
    /\ \A i \in 1 .. Len(tasks') :
          IF i > Len(tasks)
          THEN tasks'[i].st = "Ready" /\ last'.op = "insert"
          ELSE \/ tasks'[i].st = tasks[i].st
               \/ /\ <<tasks[i].st, tasks'[i].st>> \in SlotMoves
                  /\ tasks[i].st = "Vacant" => last'.op = "insert"
                  /\ tasks[i].st = "Ready" => pc = "loop" /\ pc' = "poll" /\ cur'.id = i - 1
                  /\ tasks[i].st = "Running" => pc = "poll" /\ pc' = "loop" /\ cur.id = i - 1
                  /\ tasks[i].st = "Waiting" => last'.op \in {"mark_ready", "wait_any"}

\* C28 as stated: every change of a slot's state made by any operation of
\* the arena or of the driver follows the per-task state machine; a Waiting
\* or Ready task is never removed, a task leaves only by completing.
C28_Original == [][MovesBySlot]_vars

\* C28: every change of a slot's state made by insert, take_any_ready_task,
\* put_back_waiting, put_back_nothing or mark_ready follows the per-task state
\* machine (Vacant to Ready, Ready to Running, Running to Waiting or Vacant,
\* Waiting to Ready); clear removes every slot, whatever its state.
C28_SlotTransitions ==
    [][IF last'.op = "clear" THEN tasks' = <<>> /\ len' = 0 ELSE MovesBySlot]_vars

\* clear has just dropped two tasks that had not completed.
C28_Witness ==
    /\ last.op = "clear"
    /\ last.ret = 2
    /\ tasks = <<>>

\* The links of the list `list` that starts at `head` are ids of slots or
\* the sentinel.
Linked(head, list) ==
    /\ head \in SlotIds \cup {USIZE_MAX}
    /\ \A k \in 1 .. Len(list) : tasks[list[k] + 1].next \in SlotIds \cup {USIZE_MAX}

\* C29: following `next` from ready_list_head visits exactly the slots that
\* are Ready, each once, and ends at the sentinel usize::MAX; following
\* `next` from free_list_head visits exactly the Vacant slots, each once, and
\* ends at the sentinel; Waiting and Running slots are on neither list, and
\* no list has a cycle.
C29_ListStructure ==
    LET ready == ReadyList(Arena)
        free == FreeList(Arena)
    IN  /\ Len(ready) <= Len(tasks)
        /\ Len(free) <= Len(tasks)
        /\ Linked(ready_list_head, ready)
        /\ Linked(free_list_head, free)
        /\ \A id \in SlotIds :
              /\ Occurrences(ready, id) = IF StateOf(id) = "Ready" THEN 1 ELSE 0
              /\ Occurrences(free, id) = IF StateOf(id) = "Vacant" THEN 1 ELSE 0

\* Every slot is on a list: one on the free list, after a completion, the
\* others on the Ready list, one of them woken after a resume.
C29_Witness ==
    /\ Len(ReadyList(Arena)) + Len(FreeList(Arena)) = Len(tasks)
    /\ Len(FreeList(Arena)) = 1
    /\ Len(tasks) = MaxSlots
    /\ \E id \in SlotIds : StateOf(id) = "Ready" /\ tasks[id + 1].task.step >= 1

\* C30: after any sequence of wake_me_up_on_io, wait_any and clear calls,
\* io and io_wakers have the same length and, at every index, io_wakers
\* holds the handle that was registered together with the entry of io at
\* that index: swap-removal keeps each descriptor with its own handle.
C30_IoPaired ==
    /\ Len(io) = Len(io_wakers)
    /\ \A k \in 1 .. Len(io) : OwnFd(io_wakers[k]) = io[k].fd

\* A wait_any call has removed the first of two entries and woken its
\* task: the entry registered second, by the task of slot 1, is now first.
C30_Witness ==
    /\ last.op = "wait_any"
    /\ last.ok
    /\ last.woken = <<0>>
    /\ Len(io) = 1
    /\ io[1].fd = OwnFd(1)
    /\ io_wakers = <<1>>

\* C31: the free list is LIFO. From its head it is the Vacant slots, the one
\* freed last by put_back_nothing first; when a slot is Vacant a successful
\* insert puts the new task in the slot freed last, whose index is the id of
\* the task, and the head becomes the slot freed before it.
C31_FreeListLifo ==
    [][/\ FreeList(Arena) = hist.freeOrder
       /\ (last'.op = "insert" /\ last'.ok /\ hist.freeOrder # <<>>) =>
             /\ last'.id = Head(hist.freeOrder)
             /\ tasks'[last'.id + 1].st = "Ready"
             /\ Len(tasks') = Len(tasks)
             /\ free_list_head' = IF Len(hist.freeOrder) > 1 THEN hist.freeOrder[2]
                                  ELSE USIZE_MAX
             /\ FreeList(Arena') = Tail(hist.freeOrder)]_vars

\* Slot 1 was freed after slot 0, and an insert has just reused slot 1: the
\* head of the free list is slot 0 again.
C31_Witness ==
    /\ last.op = "insert"
    /\ last.ok
    /\ last.id = 1
    /\ free_list_head = 0
    /\ hist.freeOrder # <<>>
    /\ Head(hist.freeOrder) = 0

\* C32: a TaskId is stable. From its insert until its completion (the
\* resume that reports Ready, which hist.live counts) a task is held at one
\* slot index, in the slot or by the driver while the slot is
\* Running, whatever inserts, completions, wakes and growth of the vector
\* come in between; an insert uses a slot that holds no task, so an index
\* goes to a new task only after its previous occupant completed.
C32_StableTaskId ==
    [][/\ \A tag \in Tags :
             /\ Cardinality(HeldAt(tag)) <= 1
             /\ HeldAt(tag) # {} =>
                   \/ HeldAt(tag)' = HeldAt(tag)
                   \/ /\ pc = "poll" /\ cur.task.fd = tag
                      /\ pc' = "loop"
                      /\ hist'.live = hist.live - 1
                      /\ tasks'[cur.id + 1].st = "Vacant"
                      /\ HeldAt(tag)' = {}
       /\ pc = "poll" => InBounds(Arena, cur.id) /\ tasks[cur.id + 1].st = "Running"
       /\ (last'.op = "insert" /\ last'.ok) =>
             /\ last'.id >= Len(tasks) \/ tasks[last'.id + 1].st = "Vacant"
             /\ tasks'[last'.id + 1].st = "Ready"]_vars

\* Slot 0 has just been given to a new task, after its first occupant
\* completed, while the task of slot 1, resumed once, still waits there.
C32_Witness ==
    /\ last.op = "insert"
    /\ last.ok
    /\ last.id = 0
    /\ Len(tasks) >= 2
    /\ tasks[2].st = "Waiting"
    /\ tasks[2].task.step >= 1
    /\ HeldAt(tasks[2].task.fd) = {1}
    /\ HeldAt(tasks[1].task.fd) = {0}

\* C33: ReadBuffer keeps tail <= head <= capacity after any sequence of
\* reserve, assume_init within the spare capacity, consume and fill; a
\* successful reserve(count) leaves pending() as it was, in length and in
\* content, with at least count bytes of spare capacity; and consume(count)
\* with count above pending().len() panics and changes nothing.
C33_ReadBufferKept ==
    [][/\ readbuf'.tail <= readbuf'.head
       /\ readbuf'.head <= readbuf'.capacity
       /\ (rd'.op = "reserve" /\ rd'.ok) =>
             /\ BufPending(readbuf') = BufPending(readbuf)
             /\ readbuf'.capacity - readbuf'.head >= rd'.count
       /\ (rd.phase = "idle" /\ rd'.op = "consume"
              /\ rd'.count > Len(BufPending(readbuf))) =>
             /\ rd'.phase = "panicked"
             /\ readbuf' = readbuf]_vars

\* A Guard of the mutex exists.
GuardExists == \E t \in Threads : threads[t].at = "guard"

\* C34: for every Lock implementation is_locked() is true if and only if
\* the lock is held, that is exactly while a Guard of the mutex exists, and
\* the call leaves the lock held or not as it was: for FutexLock on the
\* state of the mutex, for NoBlockLock and PthreadLock on a lock that is held
\* exactly while a Guard exists.
C34_IsLockedIffHeld ==
    /\ FutexIsLocked(mutex_lock) <=> GuardExists
    /\ NoBlockIsLocked(~GuardExists) <=> GuardExists
    /\ PthreadIsLocked(GuardExists).ret <=> GuardExists
    /\ PthreadIsLocked(GuardExists).held <=> GuardExists

\* C35: a wake handle invoked while its slot is Running, during the task's
\* own resume, returns without changing the arena; when the resume then
\* reports Pending the slot is Waiting, and it is Ready again, so that the
\* task can be resumed, only once a later invocation has found it Waiting.
C35_WakeWhileRunning ==
    /\ [](\A id \in hist.wokenRunning :
            IF pc = "poll" /\ cur.id = id THEN StateOf(id) = "Running"
            ELSE \/ StateOf(id) = "Waiting" /\ ~hist.wokenSince[id]
                 \/ StateOf(id) = "Ready" /\ hist.wokenSince[id])
    /\ [][(pc = "poll" /\ last'.op = "mark_ready" /\ last'.id = cur.id)
            => /\ ~last'.ok
               /\ UNCHANGED <<tasks, free_list_head, ready_list_head, len>>]_vars

\* C35 happens: a task whose handle was invoked during its resume reported
\* Pending and waits, the driver being back in its loop or returned.
C35_Witness ==
    \E id \in hist.wokenRunning :
        pc # "poll" /\ StateOf(id) = "Waiting" /\ ~hist.wokenSince[id]

\* The interests whose future is gone: registered by a future no slot and
\* no resume holds any more.
StaleInterests == {k \in 1 .. Len(io) : HeldAt(io[k].fd) = {}}

\* The interests that the scan of wait_any consumes in the step, invoking
\* their handles: the entries that PollFd::ready passes, those without a
\* reported event, as far as the scan gets.
Fired ==
    {k \in 1 .. Len(io) : /\ \A j \in 1 .. Len(io') : io'[j].fd # io[k].fd
                          /\ io[k].fd \notin fdReady'}

\* C36: a handle is only the slot index. Invoked while its slot is Vacant,
\* Ready or Running it changes nothing; invoked while the slot is Waiting it
\* marks the task there Ready, and so does the handle of an interest whose
\* future is gone when wait_any invokes it after the slot was recycled for
\* another future; the resume that reports Ready leaves the registered
\* interests and timers as they are.
C36_StaleHandles ==
    /\ [][last'.op = "mark_ready" =>
            LET id == last'.id IN
            IF InBounds(Arena, id) /\ StateOf(id) = "Waiting"
            THEN /\ tasks'[id + 1].st = "Ready"
                 /\ tasks'[id + 1].task = tasks[id + 1].task
            ELSE UNCHANGED <<tasks, free_list_head, ready_list_head, len>>]_vars
    /\ [][last'.op = "wait_any" =>
            \A k \in StaleInterests \cap Fired :
                LET id == io_wakers[k] IN
                IF InBounds(Arena, id) /\ StateOf(id) = "Waiting"
                THEN /\ tasks'[id + 1].st = "Ready"
                     /\ tasks'[id + 1].task = tasks[id + 1].task
                     /\ tasks[id + 1].task.fd # io[k].fd
                ELSE InBounds(Arena, id) => tasks'[id + 1] = tasks[id + 1]]_vars
    /\ [][(pc = "poll" /\ pc' = "loop" /\ tasks'[cur.id + 1].st = "Vacant")
            => UNCHANGED <<io, io_wakers, sleepers>>]_vars

\* C36 happens: wait_any consumed one interest, whose descriptor had no
\* event and whose future is gone, and invoked its handle, which marked the
\* other future that waited in the recycled slot Ready.
C36_Witness ==
    /\ last.op = "wait_any" /\ last.ok
    /\ Len(last.woken) = 1
    /\ \E g \in last.fired :
        /\ last.fired = {g}
        /\ g \notin fdReady
        /\ HeldAt(g) = {}
        /\ LET id == last.woken[1] IN
            /\ InBounds(Arena, id)
            /\ StateOf(id) = "Ready"
            /\ hist.wokenSince[id]
            /\ tasks[id + 1].task.fd # g

\* Task id waits with an interest in the descriptor fd registered.
WaitsOn(id, fd) ==
    /\ InBounds(Arena, id)
    /\ StateOf(id) = "Waiting"
    /\ \E k \in 1 .. Len(io_wakers) : io[k].fd = fd /\ io_wakers[k] = id

\* C37: a task that waits with an interest registered in a descriptor that
\* is ready and stays ready is eventually resumed, under repeated
\* run_until_idle calls, whatever else is registered.
C37_IoWakeLiveness ==
    \A id \in TaskIds, fd \in Fds :
        []((WaitsOn(id, fd) /\ [](fd \in fdReady)) => <>(pc = "poll" /\ cur.id = id))

\* C38: no update of TASKS or of WAKER starts while an update of the same
\* cell is in progress (the assert of update never fails), and both flags
\* are false whenever the program or a resumed task runs: after every
\* update has returned, wait_any having failed or not.
C38_NoReentrantUpdate ==
    /\ ~borrowed.panicked
    /\ ~borrowed.TASKS
    /\ ~borrowed.WAKER

\* C38 happens: wait_any invoked two handles, each an update of TASKS inside
\* the update of WAKER, and returned.
C38_Witness ==
    /\ last.op = "wait_any" /\ last.ok
    /\ Len(last.woken) >= 2
    /\ pc = "loop"
    /\ borrowed = Unborrowed

\* C38 happens: wait_any failed while interests were registered.
C38_WaitFailed ==
    /\ last.op = "wait_any" /\ ~last.ok
    /\ pc = "idle"
    /\ borrowed = Unborrowed

\* C39: read_non_canonical does not panic whatever bytes the terminal
\* delivers: utf8_buf never receives a push while it holds 4 bytes, and it is
\* empty when a Character event has just been delivered.
C39_NeverPanics ==
    /\ tty.at # "panicked"
    /\ (tty.called /\ tty.event = "Character") => tty.utf8_buf = <<>>

====
